---- MODULE Spec2Model ----
(***************************************************************************)
(* A model of the conversational-turn engine of ArcBot_LLM:                *)
(*   - the context budgeter   (context_utils.build_context_within_limit),  *)
(*   - the stream splitter    (llm_api.get_ai_response),                   *)
(*   - the tool-call retry loop (llm._process_conversation_with_tools),    *)
(*   - the output tag parser  (messaging.ai_parser) under the chunk loop   *)
(*     of ChatService.handle_message_received,                             *)
(*   - the stores behind the tags: role_manager, notebook, event_manager.  *)
(* Each component has its own specification over its own variables; the   *)
(* variables of the other components stay at their idle values.           *)
(***************************************************************************)
EXTENDS Integers, Sequences, FiniteSets, TLC

VARIABLES
    \* ---- context budgeter (src/context_utils.py)
    full_history,     \* the argument full_history: a sequence of message records
    active_role,      \* the argument active_role
    max_tokens,       \* CONFIG["ai"]["max_context_tokens"]
    context,          \* the returned list
    bpc,              \* "idle" | "called" | "returned"
    \* ---- stream splitter (src/llm_api.py, get_ai_response)
    buffer,           \* the accumulation buffer
    chunks,           \* the parts yielded so far, in the order yielded
    raw,              \* the deltas received so far, concatenated as received
    received,         \* the same after each delta's "\r\n" -> "\n" replacement
    ndeltas,          \* number of deltas received
    spc,              \* "idle" | "streaming" | "done" | "raised"
    \* ---- retry loop (src/llm.py, _process_conversation_with_tools)
    history,          \* the turn list of the request
    role_key,         \* the persona key of the request
    retry_count,
    context_to_send,  \* what the current attempt sends to the provider
    response_segments,\* the segments of the current attempt
    has_tool_call,
    yielded,          \* what the caller has received, in order
    saves,            \* the turn lists handed to save_conversation_history, as
                      \* they stand when it returns
    written,          \* what each save wrote: the history file and its content
    registered_role,  \* what role_manager.get_active_role returns for the chat
    provider_calls,   \* number of get_ai_response calls
    tool_execs,       \* number of _execute_tool_call calls
    tool_fails,       \* number of those that returned nothing
    excs,             \* number of exceptions caught by the attempt handler
    plain_ends,       \* number of responses read to their end
    nsegs,            \* number of segments received during the request
    tool_info,        \* tool_info: what the detection returned for the last segment
    fetched,          \* how the history request of the attempt's last tool
                      \* execution ended, "none" before it
    opc,              \* "idle" | "loop" | "stream" | "after" | "done" |
                      \* "failed" | "exhausted" | "raised"
    \* ---- output tag parser (src/messaging/ai_parser.py) under the chunk loop of
    \* ---- ChatService.handle_message_received (src/core/chat_service.py)
    ptext,            \* the argument text: the chunk being parsed
    message_id,       \* the id of the message being answered, None when absent
    chat_id,          \* the chat of the message, None when absent
    active_role_name, \* the persona read once when the message is received
    stage,            \* "idle" | "ready" | "gathering" | "returned" | "delivered" |
                      \* "raised" | "done" | "failed"
    nchunks,          \* number of chunks handed to the parser
    segments_placeholders, \* the list under construction, None at open placeholders
    music_tasks,      \* the queries of the dispatched lookups, in dispatch order
    music_indices,    \* task index -> placeholder index
    music_results,    \* task index -> result of the lookup, for the completed ones
    completion,       \* the task indices in the order the lookups completed
    segments,         \* the list returned by the last parse
    sent,             \* the messages handed to the adapter for the current chunk
    effects,          \* number of store calls made by the last parse
    \* ---- stores: src/core/role_manager.py, src/storage/notebook.py,
    \* ---- src/utils/event_manager.py
    active_roles,     \* (chat_id, chat_type) -> persona name
    role_switch_flags,\* (chat_id, chat_type) -> TRUE
    notes,            \* persona key -> list of notes
    events,           \* event id -> event record
    call,             \* the last store call made directly: operation, arguments, result
    switched,         \* the chats whose persona a call changed since their flag was read
    \* ---- history requests (src/storage/napcat_history.py)
    pending_requests, \* the keys of _pending_requests: the echo ids awaited
    waiters,          \* echo id -> the event, the result holder and the position
                      \* of the get_recent_messages call that made the request
    last_response,    \* the arguments of the last handle_history_response call
    nresponses,       \* number of responses handled
    \* ---- event bus (src/core/event_bus.py) with the handler of
    \* ---- ChatService (src/core/chat_service.py) as its listener
    queue,            \* the events published and not yet taken, by chat
    listener,         \* the chat whose handler run() is awaiting, None between events
    hpc,              \* where that handler is suspended: "none" | "parse" | "send"
    hchunks,          \* number of chunks the handler has received
    handled,          \* the chats whose handler has returned, in that order
    npublished,       \* number of events published
    \* ---- event bus with its subscription list, and ChatService.start/stop
    subscribers,      \* _listeners["MessageReceivedEvent"], in subscription order
    is_running,       \* ChatService._is_running
    pending_events,   \* the events in the queue, oldest first, by number
    current_event,    \* the event run() is dispatching, 0 between events
    listener_index,   \* position in the subscription list of the next listener
    listener_calls,   \* the listener calls made for the event dispatched last
    completed,        \* the events marked done, in that order
    nevents           \* number of events published

ctxVars == <<full_history, active_role, max_tokens, context, bpc>>
splitVars == <<buffer, chunks, raw, received, ndeltas, spc>>

orchVars == <<history, role_key, retry_count, context_to_send, response_segments,
              has_tool_call, yielded, saves, written, registered_role, provider_calls,
              tool_execs, tool_fails, excs, plain_ends, nsegs, tool_info, fetched, opc>>

vars == <<full_history, active_role, max_tokens, context, bpc,
          buffer, chunks, raw, received, ndeltas, spc,
          history, role_key, retry_count, context_to_send, response_segments,
          has_tool_call, yielded, saves, written, registered_role, provider_calls,
          tool_execs, tool_fails, excs, plain_ends, nsegs, tool_info, fetched, opc,
          ptext, message_id, chat_id, active_role_name, stage, nchunks,
          segments_placeholders, music_tasks, music_indices, music_results,
          completion, segments, sent, effects,
          active_roles, role_switch_flags, notes, events, call, switched,
          pending_requests, waiters, last_response, nresponses,
          queue, listener, hpc, hchunks, handled, npublished,
          subscribers, is_running, pending_events, current_event, listener_index,
          listener_calls, completed, nevents>>

parseVars == <<ptext, message_id, chat_id, active_role_name, stage, nchunks,
               segments_placeholders, music_tasks, music_indices, music_results,
               completion, segments, sent, effects>>
storeVars == <<active_roles, role_switch_flags, notes, events, call, switched>>
tagVars == <<parseVars, storeVars>>
histVars == <<pending_requests, waiters, last_response, nresponses>>
busVars == <<queue, listener, hpc, hchunks, handled, npublished>>
svcVars == <<subscribers, is_running, pending_events, current_event, listener_index,
             listener_calls, completed, nevents>>
netVars == <<histVars, busVars, svcVars>>

(***************************************************************************)
(* Bounds of the model.                                                    *)
(***************************************************************************)
MaxHist == 4          \* longest history handed to the budgeter
MaxDeltas == 4        \* most deltas of one response stream
MaxSegs == 3          \* most segments the provider yields during one request

(***************************************************************************)
(* Token estimator (src/common/text.py).                                   *)
(***************************************************************************)
\* A text of n characters; the budgeter reads nothing of a content but its length.
Text(n) == [i \in 1..n |-> "x"]

estimate_tokens(text) == (Len(text) * 2) \div 3 + 1

(***************************************************************************)
(* Context budgeter (src/context_utils.py).                                *)
(***************************************************************************)
DEFAULT_ROLE_KEY == "__global__"

\* message.get("role", DEFAULT_ROLE_KEY)
MessageRole(message) ==
    IF "role" \in DOMAIN message THEN message.role ELSE DEFAULT_ROLE_KEY

\* full_history and "role" in full_history[0] and full_history[0]["role"] == "system"
HasSystemPrompt(hist) ==
    /\ hist # <<>>
    /\ "role" \in DOMAIN hist[1]
    /\ hist[1].role = "system"

DialogHistory(hist) ==
    IF HasSystemPrompt(hist) THEN Tail(hist) ELSE hist

\* The system prompt is kept iff it exists and its estimate fits the budget;
\* otherwise system_prompt is (re)set to None.
SystemPromptKept(hist, budget) ==
    /\ HasSystemPrompt(hist)
    /\ estimate_tokens(hist[1].content) <= budget

\* Mutant of ListInsert: context.append(message) instead of insert at the slot.
ListInsertAppends(list, index, x) == Append(list, x)

\* Python's list.insert(index, x), index counted from 0.
ListInsert(list, index, x) ==
    IF index >= Len(list)
    THEN Append(list, x)
    ELSE SubSeq(list, 1, index) \o <<x>> \o SubSeq(list, index + 1, Len(list))

\* Mutant of InsertIndex: the slot of the system prompt is forgotten.
InsertIndexAlwaysZero(system_kept) == 0

\* insert_index = 1 if system_prompt else 0
InsertIndex(system_kept) == IF system_kept THEN 1 ELSE 0

\* Mutant of ShouldStop: the cost of the message at hand is not added.
ShouldStopIgnoresMessage(current_tokens, message_tokens, budget, ctx) ==
    current_tokens > budget /\ ctx # <<>>

\* if current_tokens + message_tokens > max_tokens and context: break
ShouldStop(current_tokens, message_tokens, budget, ctx) ==
    current_tokens + message_tokens > budget /\ ctx # <<>>

\* The walk "for message in reversed(dialog_history)", from position i down.
\* st = [context, current_tokens]
RECURSIVE WalkDialog(_, _, _, _, _, _)
WalkDialog(dialog, i, st, role, budget, system_kept) ==
    IF i = 0 THEN st
    ELSE LET message == dialog[i]
             message_tokens == estimate_tokens(message.content)
         IN  IF MessageRole(message) # role
             THEN WalkDialog(dialog, i - 1, st, role, budget, system_kept)
             ELSE IF ShouldStop(st.current_tokens, message_tokens, budget, st.context)
             THEN st
             ELSE WalkDialog(dialog, i - 1,
                      [context |-> ListInsert(st.context, InsertIndex(system_kept), message),
                       current_tokens |-> st.current_tokens + message_tokens],
                      role, budget, system_kept)

\* Position of the last message of dialog[1..i] whose role matches, 0 if none.
RECURSIVE LastMatching(_, _, _)
LastMatching(dialog, i, role) ==
    IF i = 0 THEN 0
    ELSE IF MessageRole(dialog[i]) = role THEN i
    ELSE LastMatching(dialog, i - 1, role)

\* The closing check: with nothing but the system prompt (or nothing) in the
\* context, add the newest matching message, if it fits.
FallbackLast(dialog, st, role, budget, system_kept) ==
    LET k == LastMatching(dialog, Len(dialog), role)
    IN  IF /\ (st.context = <<>> \/ (system_kept /\ Len(st.context) = 1))
           /\ dialog # <<>>
           /\ k # 0
           /\ st.current_tokens + estimate_tokens(dialog[k].content) <= budget
        THEN [context |-> ListInsert(st.context, InsertIndex(system_kept), dialog[k]),
              current_tokens |-> st.current_tokens + estimate_tokens(dialog[k].content)]
        ELSE st

build_context_within_limit(hist, role, budget) ==
    LET dialog == DialogHistory(hist)
        system_kept == SystemPromptKept(hist, budget)
        st0 == IF system_kept
               THEN [context |-> <<hist[1]>>,
                     current_tokens |-> estimate_tokens(hist[1].content)]
               ELSE [context |-> <<>>, current_tokens |-> 0]
        st1 == WalkDialog(dialog, Len(dialog), st0, role, budget, system_kept)
    IN  FallbackLast(dialog, st1, role, budget, system_kept).context

(***************************************************************************)
(* The inputs of the budgeter.                                             *)
(***************************************************************************)
\* Content lengths: estimates 1, 40 and 50 tokens.
ContentLengths == {0, 59, 74}
Budgets == {45, 100}
\* The default key and a persona; add_role takes any non-empty name, "user" too.
ActiveRoles == {DEFAULT_ROLE_KEY, "user"}

\* The system prompt built by process_conversation: no role_marker.
SystemTurn(n) == [role |-> "system", content |-> Text(n)]
\* A dialog turn as process_conversation and the retry loop tag it.
TaggedTurn(r, n, marker) == [role |-> r, content |-> Text(n), role_marker |-> marker]
\* A message without a role key, which the budgeter counts as DEFAULT_ROLE_KEY.
BareTurn(n) == [content |-> Text(n)]

\* An assistant turn matches neither active role, so its length is never read:
\* one length is enough.
DialogTurns(marker) ==
    {TaggedTurn("user", n, marker) : n \in ContentLengths}
        \cup {TaggedTurn("assistant", 59, marker)}
        \cup {BareTurn(n) : n \in ContentLengths}

FirstTurns(marker) == DialogTurns(marker) \cup {SystemTurn(n) : n \in ContentLengths}

Histories(marker) ==
    {<<>>} \cup
    UNION {{<<f>> \o rest : f \in FirstTurns(marker),
                           rest \in [1..(n - 1) -> DialogTurns(marker)]} : n \in 1..MaxHist}

IdleCtx ==
    /\ full_history = <<>>
    /\ active_role = DEFAULT_ROLE_KEY
    /\ max_tokens = 0
    /\ context = <<>>
    /\ bpc = "idle"

InitBudget ==
    /\ active_role \in ActiveRoles
    /\ full_history \in Histories(active_role)
    /\ max_tokens \in Budgets
    /\ context = <<>>
    /\ bpc = "called"

CallBuildContext ==
    /\ bpc = "called"
    /\ context' = build_context_within_limit(full_history, active_role, max_tokens)
    /\ bpc' = "returned"
    /\ UNCHANGED <<full_history, active_role, max_tokens>>

NextCtx == CallBuildContext /\ UNCHANGED <<splitVars, orchVars, tagVars, netVars>>

(***************************************************************************)
(* Properties of the budgeter.                                             *)
(***************************************************************************)
RECURSIVE SumTokens(_)
SumTokens(list) ==
    IF list = <<>> THEN 0 ELSE estimate_tokens(Head(list).content) + SumTokens(Tail(list))

IsSystemRole(message) == "role" \in DOMAIN message /\ message.role = "system"
IsDialogTurn(message) == ~IsSystemRole(message)

\* The returned context without the system turn.
DialogPortion(list) == SelectSeq(list, IsDialogTurn)

\* sub is obtained from list by deleting elements (the order is kept).
RECURSIVE IsSubsequence(_, _)
IsSubsequence(sub, list) ==
    IF sub = <<>> THEN TRUE
    ELSE IF list = <<>> THEN FALSE
    ELSE IF Head(sub) = Head(list) THEN IsSubsequence(Tail(sub), Tail(list))
    ELSE IsSubsequence(sub, Tail(list))

InContext(message) == \E i \in 1..Len(context) : context[i] = message

\* C4: the returned turns have a summed estimate of at most the budget, or
\* the returned dialog portion is exactly one turn.
C4_BudgetBound ==
    bpc = "returned" =>
        \/ SumTokens(context) <= max_tokens
        \/ Len(DialogPortion(context)) = 1

\* The oversized newest turn has been accepted alone, and two turns within budget.
C4_Witness ==
    /\ bpc = "returned"
    /\ SumTokens(context) > max_tokens
    /\ Len(DialogPortion(context)) = 1
    /\ Len(DialogHistory(full_history)) >= 2

\* C5 (as claimed): when the history has a dialog turn, the returned context
\* contains the most recent dialog turn.
C5_NewestTurnIncluded ==
    (bpc = "returned" /\ DialogHistory(full_history) # <<>>) =>
        InContext(DialogHistory(full_history)[Len(DialogHistory(full_history))])

\* C6: a first system turn whose estimate fits the budget is in the returned
\* context, as its first element.
C6_SystemTurnFirst ==
    (bpc = "returned" /\ SystemPromptKept(full_history, max_tokens)) =>
        /\ context # <<>>
        /\ context[1] = full_history[1]

\* A kept system turn followed by two accepted dialog turns.
C6_Witness ==
    /\ bpc = "returned"
    /\ SystemPromptKept(full_history, max_tokens)
    /\ Len(context) >= 3

\* C7: the dialog turns of the returned context are in the order of the
\* input history, oldest first.
C7_ChronologicalOrder ==
    bpc = "returned" =>
        IsSubsequence(DialogPortion(context), DialogHistory(full_history))

\* Two different dialog turns have been accepted, after a kept system turn.
C7_Witness ==
    /\ bpc = "returned"
    /\ Len(DialogPortion(context)) >= 2
    /\ DialogPortion(context)[1] # DialogPortion(context)[2]
    /\ SystemPromptKept(full_history, max_tokens)

\* The history [system(50t), u1(40t), a1(40t), u2(40t)] of persona marker.
ScenarioHistory(marker) ==
    <<SystemTurn(74), TaggedTurn("user", 59, marker),
      TaggedTurn("assistant", 59, marker), TaggedTurn("user", 59, marker)>>

\* C8 (as claimed): for the scenario history and budget 100 the budgeter
\* returns exactly [system, u2].
C8_ScenarioResult ==
    (bpc = "returned" /\ max_tokens = 100 /\ full_history = ScenarioHistory(active_role)) =>
        context = <<SystemTurn(74), TaggedTurn("user", 59, active_role)>>

(***************************************************************************)
(* Stream splitter (src/llm_api.py, get_ai_response).  Texts are sequences *)
(* of characters.                                                          *)
(***************************************************************************)
SEND == <<"[", "s", "e", "n", "d", "]">>
NEWLINE == <<"\n">>
LONGTEXT == <<"[", "l", "o", "n", "g", "t", "e", "x", "t", ":">>

\* The characters str.strip() removes.
Whitespace == {" ", "\n", "\r", "\t"}

\* pat occurs in text at position p.
OccursAt(text, pat, p) ==
    /\ p >= 1
    /\ p + Len(pat) - 1 <= Len(text)
    /\ SubSeq(text, p, p + Len(pat) - 1) = pat

\* Position of the leftmost occurrence of pat in text at or after from; 0 if none.
RECURSIVE FindFrom(_, _, _)
FindFrom(text, pat, from) ==
    IF from + Len(pat) - 1 > Len(text) THEN 0
    ELSE IF OccursAt(text, pat, from) THEN from
    ELSE FindFrom(text, pat, from + 1)

Find(text, pat) == FindFrom(text, pat, 1)
Contains(text, pat) == Find(text, pat) # 0

RECURSIVE LStrip(_)
LStrip(text) ==
    IF text # <<>> /\ Head(text) \in Whitespace THEN LStrip(Tail(text)) ELSE text

RECURSIVE RStrip(_)
RStrip(text) ==
    IF text # <<>> /\ text[Len(text)] \in Whitespace
    THEN RStrip(SubSeq(text, 1, Len(text) - 1)) ELSE text

\* str.strip()
Strip(text) == RStrip(LStrip(text))

EndsWith(text, ch) == text # <<>> /\ text[Len(text)] = ch

\* delta.replace("\r\n", "\n")
RECURSIVE ReplaceCRLF(_)
ReplaceCRLF(text) ==
    IF text = <<>> THEN <<>>
    ELSE IF Len(text) >= 2 /\ text[1] = "\r" /\ text[2] = "\n"
    THEN <<"\n">> \o ReplaceCRLF(SubSeq(text, 3, Len(text)))
    ELSE <<Head(text)>> \o ReplaceCRLF(Tail(text))

\* Mutant of SplitOnce: the two results of split() unpacked the wrong way round.
SplitOnceSwapped(text, sep) ==
    LET p == Find(text, sep)
    IN  [part |-> SubSeq(text, p + Len(sep), Len(text)),
         rest |-> SubSeq(text, 1, p - 1)]

\* part, buffer = buffer.split(sep, 1), for a sep that occurs in the buffer
SplitOnce(text, sep) ==
    LET p == Find(text, sep)
    IN  [part |-> SubSeq(text, 1, p - 1),
         rest |-> SubSeq(text, p + Len(sep), Len(text))]

\* while "[send]" in buffer or (buffer.endswith("\n") and "\n" in buffer.strip())
MustSplit(buf) ==
    \/ Contains(buf, SEND)
    \/ (EndsWith(buf, "\n") /\ Contains(Strip(buf), NEWLINE))

\* Mutant of YieldPart: the part is tested after strip() but yielded as it was cut.
YieldPartUntrimmed(out, part) ==
    IF Strip(part) # <<>> THEN Append(out, part) ELSE out

\* part = part.strip(); if part: yield part
YieldPart(out, part) ==
    IF Strip(part) # <<>> THEN Append(out, Strip(part)) ELSE out

\* The while loop run after a delta has been appended: st = [buffer, out].
RECURSIVE SplitLoop(_)
SplitLoop(st) ==
    IF ~MustSplit(st.buffer) THEN st
    ELSE LET sp == IF Contains(st.buffer, SEND)
                   THEN SplitOnce(st.buffer, SEND)
                   ELSE SplitOnce(st.buffer, NEWLINE)
         IN  SplitLoop([buffer |-> sp.rest, out |-> YieldPart(st.out, sp.part)])

\* The deltas a provider sends: pieces of text, of delimiters and of long blocks.
Deltas ==
    { <<"a">>, <<"\n">>, <<"a", "\n", "b">>,
      SEND, <<"[", "s", "e">>, <<"n", "d", "]">>,
      LONGTEXT, <<"]">>, <<"\r", "\n">>, <<"\r">> }

IdleSplit ==
    /\ buffer = <<>>
    /\ chunks = <<>>
    /\ raw = <<>>
    /\ received = <<>>
    /\ ndeltas = 0
    /\ spc = "idle"

\* After the request has been answered: buffer = "".
InitSplit ==
    /\ buffer = <<>>
    /\ chunks = <<>>
    /\ raw = <<>>
    /\ received = <<>>
    /\ ndeltas = 0
    /\ spc = "streaming"

\* One "data:" line with a non-empty delta: buffer += delta, then the loop.
ReceiveDelta(delta) ==
    /\ spc = "streaming"
    /\ ndeltas < MaxDeltas
    /\ LET st == SplitLoop([buffer |-> buffer \o ReplaceCRLF(delta), out |-> chunks])
       IN  /\ buffer' = st.buffer
           /\ chunks' = st.out
    /\ raw' = raw \o delta
    /\ received' = received \o ReplaceCRLF(delta)
    /\ ndeltas' = ndeltas + 1
    /\ spc' = "streaming"

\* [DONE], or the end of the lines: the rest of the buffer is flushed.
StreamDone ==
    /\ spc = "streaming"
    /\ chunks' = YieldPart(chunks, buffer)
    /\ spc' = "done"
    /\ UNCHANGED <<buffer, raw, received, ndeltas>>

\* An exception while reading the stream is re-raised; nothing is flushed.
StreamRaises ==
    /\ spc = "streaming"
    /\ spc' = "raised"
    /\ UNCHANGED <<buffer, chunks, raw, received, ndeltas>>

NextSplit ==
    \/ \E delta \in Deltas : ReceiveDelta(delta) /\ UNCHANGED <<ctxVars, orchVars, tagVars, netVars>>
    \/ StreamDone /\ UNCHANGED <<ctxVars, orchVars, tagVars, netVars>>
    \/ StreamRaises /\ UNCHANGED <<ctxVars, orchVars, tagVars, netVars>>

(***************************************************************************)
(* Properties of the splitter.                                             *)
(***************************************************************************)
\* Every "[longtext:" of text is followed by a "]".
RECURSIVE LongBlocksClosedFrom(_, _)
LongBlocksClosedFrom(text, from) ==
    LET p == FindFrom(text, LONGTEXT, from)
    IN  IF p = 0 THEN TRUE
        ELSE /\ FindFrom(text, <<"]">>, p + Len(LONGTEXT)) # 0
             /\ LongBlocksClosedFrom(text, p + Len(LONGTEXT))

LongBlocksClosed(text) == LongBlocksClosedFrom(text, 1)

\* C9 (as claimed): when the output holds a long block, all its long blocks
\* are closed and it holds no send delimiter, no yielded chunk holds an
\* opening long-block marker without its close bracket.
C9_NoTruncatedLongBlock ==
    (/\ spc = "done"
     /\ Contains(received, LONGTEXT)
     /\ LongBlocksClosed(received)
     /\ ~Contains(received, SEND)) =>
        \A i \in 1..Len(chunks) : LongBlocksClosed(chunks[i])

\* The chunks list[k..] occur in text one after the other, without overlap,
\* at or after position from.
RECURSIVE InOrderFrom(_, _, _, _)
InOrderFrom(list, k, text, from) ==
    IF k > Len(list) THEN TRUE
    ELSE LET p == FindFrom(text, list[k], from)
         IN  /\ p # 0
             /\ InOrderFrom(list, k + 1, text, p + Len(list[k]))

\* C10 (as claimed): the chunks are contiguous pieces of the concatenated
\* deltas, each lying entirely before the chunks yielded after it.
C10_ChunksInRawOrder == InOrderFrom(chunks, 1, raw, 1)

\* C10 (amended): the same of the deltas after their "\r\n" -> "\n" replacement.
C10_ChunksInOrder == InOrderFrom(chunks, 1, received, 1)

\* Three chunks have been yielded, by a delimiter, by a newline and by the flush.
C10_Witness ==
    /\ spc = "done"
    /\ Len(chunks) >= 3
    /\ Contains(received, SEND)
    /\ buffer # <<>>
\* Position p of text lies inside an unterminated long block: an opening
\* marker stands before it with no close bracket between the two.
InOpenBlock(text, p) ==
    \E q \in 1..p :
        /\ OccursAt(text, LONGTEXT, q)
        /\ q + Len(LONGTEXT) <= p
        /\ \A r \in (q + Len(LONGTEXT))..(p - 1) : text[r] # "]"

\* C31 (as claimed): after a delta has been processed the buffer holds no
\* send delimiter and no newline outside an unterminated long block, and no
\* yielded chunk spans a newline.
C31_BufferFullySplit ==
    /\ (spc = "streaming" /\ ndeltas > 0) =>
          /\ ~Contains(buffer, SEND)
          /\ \A p \in 1..Len(buffer) : buffer[p] = "\n" => InOpenBlock(buffer, p)
    /\ \A i \in 1..Len(chunks) : ~Contains(chunks[i], NEWLINE)

\* text without the characters strip() removes.
RECURSIVE NonWhitespace(_)
NonWhitespace(text) ==
    IF text = <<>> THEN <<>>
    ELSE IF Head(text) \in Whitespace THEN NonWhitespace(Tail(text))
    ELSE <<Head(text)>> \o NonWhitespace(Tail(text))

\* text without its send delimiters, taken from the left.
RECURSIVE WithoutSend(_)
WithoutSend(text) ==
    LET p == Find(text, SEND)
    IN  IF p = 0 THEN text
        ELSE SubSeq(text, 1, p - 1) \o WithoutSend(SubSeq(text, p + Len(SEND), Len(text)))

RECURSIVE Joined(_)
Joined(list) == IF list = <<>> THEN <<>> ELSE Head(list) \o Joined(Tail(list))

\* C32: every yielded chunk is non-empty and carries no leading or trailing
\* whitespace; when the stream has ended normally the trimmed rest of the
\* buffer is the last chunk exactly when it is non-empty, and the yielded
\* chunks hold every received character that is neither whitespace nor part
\* of a send delimiter.
C32_ChunksTrimmedAndFlushed ==
    /\ \A i \in 1..Len(chunks) : chunks[i] # <<>> /\ Strip(chunks[i]) = chunks[i]
    /\ spc = "done" =>
          /\ Strip(buffer) # <<>> => (chunks # <<>> /\ chunks[Len(chunks)] = Strip(buffer))
          /\ NonWhitespace(Joined(chunks)) = NonWhitespace(WithoutSend(received))

\* The stream has ended with a rest that strip() shortened, after earlier chunks.
C32_Witness ==
    /\ spc = "done"
    /\ Len(chunks) >= 2
    /\ Strip(buffer) # <<>>
    /\ Strip(buffer) # buffer
    /\ chunks[Len(chunks)] = Strip(buffer)

(***************************************************************************)
(* Tool-call retry loop (src/llm.py).                                      *)
(***************************************************************************)
max_retries == 3
DefaultMaxContextTokens == 15000

APOLOGY == <<"apology">>   \* the text yielded when the attempts are used up

GET_CONTEXT ==
    <<"[", "g", "e", "t", "_", "c", "o", "n", "t", "e", "x", "t", ":">>

Digits == {"0", "1", "2", "3", "4", "5", "6", "7", "8", "9"}

\* First position at or after q that holds no digit.
RECURSIVE DigitsEnd(_, _)
DigitsEnd(text, q) ==
    IF q <= Len(text) /\ text[q] \in Digits THEN DigitsEnd(text, q + 1) ELSE q

\* r'\[get_context:(\d+)\]' matches at position p
GetContextAt(text, p) ==
    /\ OccursAt(text, GET_CONTEXT, p)
    /\ LET q == p + Len(GET_CONTEXT)
           e == DigitsEnd(text, q)
       IN  e > q /\ e <= Len(text) /\ text[e] = "]"

\* re.search: the leftmost position where the pattern matches, 0 if none.
RECURSIVE SearchGetContext(_, _)
SearchGetContext(text, from) ==
    IF from > Len(text) THEN 0
    ELSE IF GetContextAt(text, from) THEN from
    ELSE SearchGetContext(text, from + 1)

\* "".join(response_segments)
RECURSIVE Join(_)
Join(segs) == IF segs = <<>> THEN <<>> ELSE Head(segs) \o Join(Tail(segs))

SEARCH_CONTEXT ==
    <<"[", "s", "e", "a", "r", "c", "h", "_", "c", "o", "n", "t", "e", "x", "t", ":">>

\* First position at or after q that holds ':' or ']', or lies behind the text.
RECURSIVE QueryEnd(_, _)
QueryEnd(text, q) ==
    IF q <= Len(text) /\ text[q] \notin {":", "]"} THEN QueryEnd(text, q + 1) ELSE q

\* r'\[search_context:([^:\]]+)(?::(\d+))?\]' matches at position p
SearchContextAt(text, p) ==
    /\ OccursAt(text, SEARCH_CONTEXT, p)
    /\ LET q == p + Len(SEARCH_CONTEXT)
           e == QueryEnd(text, q)
       IN  /\ e > q
           /\ e <= Len(text)
           /\ \/ text[e] = "]"
              \/ LET d == DigitsEnd(text, e + 1)
                 IN  d > e + 1 /\ d <= Len(text) /\ text[d] = "]"

\* re.search: the leftmost position where the pattern matches, 0 if none.
RECURSIVE SearchSearchContext(_, _)
SearchSearchContext(text, from) ==
    IF from > Len(text) THEN 0
    ELSE IF SearchContextAt(text, from) THEN from
    ELSE SearchSearchContext(text, from + 1)

\* int(match.group(2))
RECURSIVE ToInt(_)
ToInt(digits) ==
    IF digits = <<>> THEN 0
    ELSE LET last == digits[Len(digits)]
             value == CHOOSE n \in 0..9 :
                          <<"0", "1", "2", "3", "4", "5", "6", "7", "8", "9">>[n + 1] = last
         IN  10 * ToInt(SubSeq(digits, 1, Len(digits) - 1)) + value

\* max(7, min(730, days))
ClampDays(days) ==
    LET upper == IF days < 730 THEN days ELSE 730
    IN  IF upper > 7 THEN upper ELSE 7

NoTool == [type |-> "none"]

\* Mutant of check_for_tool_calls_sync: only the get_context marker is looked for.
check_for_get_context_only(text) ==
    LET p == SearchGetContext(text, 1)
    IN  IF p # 0
        THEN [type |-> "get_context",
              count |-> SubSeq(text, p + Len(GET_CONTEXT),
                               DigitsEnd(text, p + Len(GET_CONTEXT)) - 1)]
        ELSE NoTool

\* _check_for_tool_calls_sync: the tool_info of the text, NoTool for None.  The
\* get_context pattern is searched first, the search_context pattern only
\* when it is not found.
check_for_tool_calls_sync(text) ==
    LET p == SearchGetContext(text, 1)
        s == SearchSearchContext(text, 1)
        q == s + Len(SEARCH_CONTEXT)
        e == QueryEnd(text, q)
    IN  IF p # 0
        THEN [type |-> "get_context",
              count |-> SubSeq(text, p + Len(GET_CONTEXT),
                               DigitsEnd(text, p + Len(GET_CONTEXT)) - 1)]
        ELSE IF s # 0
        THEN [type |-> "search_context",
              query |-> Strip(SubSeq(text, q, e - 1)),
              days |-> IF text[e] = ":"
                       THEN ClampDays(ToInt(SubSeq(text, e + 1,
                                                   DigitsEnd(text, e + 1) - 1)))
                       ELSE 7]
        ELSE NoTool

\* Mutant of LoopContinues: the bound is tested with <=.
LoopContinuesOffByOne(count) == count <= max_retries

\* while retry_count < max_retries
LoopContinues(count) == count < max_retries

\* How the history request of a tool execution ends: the response arrives
\* with messages; the wait times out; sending fails; the waiter is woken
\* without data; or an exception is raised outside get_recent_messages' own
\* handlers (int(group_id), the nested event loop).
FetchOutcomes == {"messages", "timeout", "error", "no_response", "raises"}

\* One formatted message of the chat.
TOOL_DATA == <<"d", "a", "t", "a">>

\* get_recent_messages: the formatted messages of the response, [] when the
\* wait timed out, an exception was caught or the holder stayed empty.
get_recent_messages(outcome) ==
    IF outcome = "messages" THEN <<TOOL_DATA>> ELSE <<>>

\* get_bulk_messages: the batches gathered before the loop was left.
get_bulk_messages(outcome) ==
    IF outcome = "messages" THEN <<TOOL_DATA>> ELSE <<>>

\* format_context_for_ai: header, lines and footer; for no message the
\* header, the sentence "no history messages" and the footer.
format_context_for_ai(messages) ==
    IF messages = <<>> THEN <<"context:", "none", "end">>
    ELSE <<"context:">> \o Join(messages) \o <<"end">>

\* NapcatHistoryManager.search_context: the formatted matches, or the
\* sentence "nothing found" between header and footer (every message of the
\* chat counts as a match here).
search_context(bulk_messages) ==
    IF bulk_messages = <<>> THEN <<"search:", "none", "end">>
    ELSE <<"search:">> \o Join(bulk_messages) \o <<"end">>

\* _execute_tool_call: the text the tool returns, <<>> for None (an unknown
\* tool type, or an exception, which it catches itself).
execute_tool_call(info, outcome) ==
    IF outcome = "raises" THEN <<>>
    ELSE IF info.type = "get_context"
    THEN format_context_for_ai(get_recent_messages(outcome))
    ELSE IF info.type = "search_context"
    THEN search_context(get_bulk_messages(outcome))
    ELSE <<>>

\* The segments a response is made of, as the splitter yields them.
SEG_TEXT == <<"h", "i">>
SEG_TOOL == GET_CONTEXT \o <<"5", "]">>
SEG_SEARCH == SEARCH_CONTEXT \o <<"x", "]">>
SEG_BOTH == SEG_SEARCH \o SEG_TOOL
Segments == {SEG_TEXT, SEG_TOOL, SEG_SEARCH, SEG_BOTH}

UserTurn(text, marker) == [role |-> "user", content |-> text, role_marker |-> marker]
AssistantTurn(text, marker) ==
    [role |-> "assistant", content |-> text, role_marker |-> marker]
\* Mutant of ToolResultTurn: the tool result is handed over as a user turn.
ToolResultAsUserTurn(data, marker) ==
    [role |-> "user", content |-> <<"[", "i", "n", "t", "]">> \o data,
     role_marker |-> marker]

\* The tool result, with the instruction not to echo it.
ToolResultTurn(data, marker) ==
    [role |-> "system", content |-> <<"[", "i", "n", "t", "]">> \o data,
     role_marker |-> marker]

full_response == Join(response_segments)

\* None where a persona name is expected: the default persona is active.
NO_ROLE == "None"
DEFAULT_ROLE_FILENAME == "default.json"

\* active_role_name as ChatService hands it over: get_active_role of the chat
\* when the message was received, of which role_key is the "or DEFAULT_ROLE_KEY".
ArgumentRole(key) == IF key = DEFAULT_ROLE_KEY THEN NO_ROLE ELSE key

\* role_to_use = active_role_name if active_role_name is not None
\*               else role_manager.get_active_role(id_str, chat_type)
RoleToUse(role_name, registered) ==
    IF role_name # NO_ROLE THEN role_name ELSE registered

\* role_to_use and role_to_use != DEFAULT_ROLE_KEY
IsPersona(role_to_use) == role_to_use # NO_ROLE /\ role_to_use # DEFAULT_ROLE_KEY

\* get_history_file: the file of the persona, default.json for none.
get_history_file(role_to_use) ==
    IF IsPersona(role_to_use) THEN role_to_use ELSE DEFAULT_ROLE_FILENAME

\* get_latest_system_content: the persona's prompt, or system_prompt.txt; the
\* prompt PromptBuilder builds from it has the event guide behind it.
get_latest_system_content(role_to_use) ==
    IF IsPersona(role_to_use) THEN <<"p">> ELSE Text(1)

\* msg.get("role_marker"), NO_ROLE for None
RoleMarker(msg) == IF "role_marker" \in DOMAIN msg THEN msg.role_marker ELSE NO_ROLE

\* The test of the list comprehension that builds history_to_save.
KeptBySave(msg, role_to_use) ==
    IF IsPersona(role_to_use)
    THEN msg.role = "system" \/ RoleMarker(msg) = role_to_use
    ELSE RoleMarker(msg) \in {NO_ROLE, DEFAULT_ROLE_KEY}

\* Index in hist of the first message of history_to_save that is a system
\* message, 0 if there is none.
RECURSIVE FirstKeptSystem(_, _, _)
FirstKeptSystem(hist, role_to_use, i) ==
    IF i > Len(hist) THEN 0
    ELSE IF KeptBySave(hist[i], role_to_use) /\ hist[i].role = "system" THEN i
    ELSE FirstKeptSystem(hist, role_to_use, i + 1)

\* The caller's list when save_conversation_history has returned:
\* history_to_save is a new list of the same message objects, so
\* message["content"] = latest_system_content writes into the caller's message.
HistoryAfterSave(hist, role_to_use) ==
    LET k == FirstKeptSystem(hist, role_to_use, 1)
    IN  IF k = 0 THEN hist
        ELSE [hist EXCEPT ![k] = [@ EXCEPT !.content = get_latest_system_content(role_to_use)]]

RECURSIVE KeptMessages(_, _)
KeptMessages(hist, role_to_use) ==
    IF hist = <<>> THEN <<>>
    ELSE (IF KeptBySave(Head(hist), role_to_use) THEN <<Head(hist)>> ELSE <<>>)
         \o KeptMessages(Tail(hist), role_to_use)

\* save_conversation_history: the file written and the list dumped into it.
save_conversation_history(hist, role_name, registered) ==
    LET role_to_use == RoleToUse(role_name, registered)
        history_to_save == KeptMessages(HistoryAfterSave(hist, role_to_use), role_to_use)
    IN  [file |-> get_history_file(role_to_use),
         turns |-> IF FirstKeptSystem(hist, role_to_use, 1) # 0 THEN history_to_save
                   ELSE <<[role |-> "system",
                           content |-> get_latest_system_content(role_to_use)]>>
                        \o history_to_save]

IdleOrch ==
    /\ history = <<>>
    /\ role_key = DEFAULT_ROLE_KEY
    /\ retry_count = 0
    /\ context_to_send = <<>>
    /\ response_segments = <<>>
    /\ has_tool_call = FALSE
    /\ yielded = <<>>
    /\ saves = <<>>
    /\ written = <<>>
    /\ registered_role = NO_ROLE
    /\ provider_calls = 0
    /\ tool_execs = 0
    /\ tool_fails = 0
    /\ excs = 0
    /\ plain_ends = 0
    /\ nsegs = 0
    /\ tool_info = NoTool
    /\ fetched = "none"
    /\ opc = "idle"

\* The history process_conversation loads for the persona, before it puts the
\* system prompt first and the user's message last: none for the default
\* key, one exchange for the persona.
LoadedHistory(marker) ==
    IF marker = DEFAULT_ROLE_KEY THEN <<>>
    ELSE <<UserTurn(SEG_TEXT, marker), AssistantTurn(SEG_TEXT, marker)>>

\* Mutant of PutSystemFirst: the system prompt is inserted whatever is first.
PutSystemFirstInserts(hist, system_message) == <<system_message>> \o hist

\* if history and history[0]['role'] == 'system': history[0] = system_message
\* else: history.insert(0, system_message)
PutSystemFirst(hist, system_message) ==
    IF hist # <<>> /\ hist[1].role = "system"
    THEN <<system_message>> \o Tail(hist)
    ELSE <<system_message>> \o hist

\* process_conversation up to the call of _process_conversation_with_tools:
\* load_conversation_history returns its own system message followed by the
\* stored turns of the persona.
InitOrch ==
    /\ role_key \in {DEFAULT_ROLE_KEY, "Nya"}
    /\ history = Append(PutSystemFirst(<<SystemTurn(1)>> \o LoadedHistory(role_key),
                                       SystemTurn(2)),
                        UserTurn(SEG_TEXT, role_key))
    /\ retry_count = 0
    /\ context_to_send = <<>>
    /\ response_segments = <<>>
    /\ has_tool_call = FALSE
    /\ yielded = <<>>
    /\ saves = <<>>
    /\ written = <<>>
    /\ registered_role = ArgumentRole(role_key)
    /\ provider_calls = 0
    /\ tool_execs = 0
    /\ tool_fails = 0
    /\ excs = 0
    /\ plain_ends = 0
    /\ nsegs = 0
    /\ tool_info = NoTool
    /\ fetched = "none"
    /\ opc = "loop"

\* The while test holds: the context is built and the provider is called.
BeginAttempt ==
    /\ opc = "loop"
    /\ LoopContinues(retry_count)
    /\ context_to_send' =
           build_context_within_limit(history, role_key, DefaultMaxContextTokens)
    /\ response_segments' = <<>>
    /\ has_tool_call' = FALSE
    /\ provider_calls' = provider_calls + 1
    /\ fetched' = "none"
    /\ opc' = "stream"
    /\ UNCHANGED <<nsegs, tool_info,
                   history, role_key, retry_count, yielded, saves, written, registered_role, tool_execs,
                   tool_fails, excs, plain_ends>>

\* The while test fails: the generator ends.
LoopExit ==
    /\ opc = "loop"
    /\ ~LoopContinues(retry_count)
    /\ opc' = "exhausted"
    /\ UNCHANGED <<nsegs, tool_info, fetched,
                   history, role_key, retry_count, context_to_send, response_segments,
                   has_tool_call, yielded, saves, written, registered_role, provider_calls, tool_execs,
                   tool_fails, excs, plain_ends>>

\* A segment without a tool marker in the accumulated text: yield segment.
ForwardSegment(segment) ==
    /\ opc = "stream"
    /\ nsegs < MaxSegs
    /\ nsegs' = nsegs + 1
    /\ check_for_tool_calls_sync(Join(Append(response_segments, segment))) = NoTool
    /\ tool_info' = NoTool
    /\ response_segments' = Append(response_segments, segment)
    /\ yielded' = Append(yielded, segment)
    /\ UNCHANGED <<fetched, history, role_key, retry_count, context_to_send,
                   has_tool_call, saves, written, registered_role, provider_calls, tool_execs, tool_fails,
                   excs, plain_ends, opc>>

\* A tool marker is detected and the tool returns data: the assistant turn and
\* the tool result are appended, the counter is incremented, break.
ToolCallSucceeds(segment, outcome) ==
    /\ opc = "stream"
    /\ nsegs < MaxSegs
    /\ nsegs' = nsegs + 1
    /\ \E info \in {check_for_tool_calls_sync(Join(Append(response_segments, segment)))} :
          /\ info # NoTool
          /\ tool_info' = info
          /\ \E context_data \in {execute_tool_call(info, outcome)} :
                /\ context_data # <<>>
                /\ history' = history \o
                       <<AssistantTurn(Join(Append(response_segments, segment)), role_key),
                         ToolResultTurn(context_data, role_key)>>
    /\ fetched' = outcome
    /\ response_segments' = Append(response_segments, segment)
    /\ tool_execs' = tool_execs + 1
    /\ retry_count' = retry_count + 1
    /\ has_tool_call' = TRUE
    /\ opc' = "after"
    /\ UNCHANGED <<role_key, context_to_send, yielded, saves, written, registered_role, provider_calls,
                   tool_fails, excs, plain_ends>>

\* A tool marker is detected and the tool returns nothing: the assistant turn
\* stays appended and the for loop goes on, without yielding the segment.
ToolCallFails(segment, outcome) ==
    /\ opc = "stream"
    /\ nsegs < MaxSegs
    /\ nsegs' = nsegs + 1
    /\ \E info \in {check_for_tool_calls_sync(Join(Append(response_segments, segment)))} :
          /\ info # NoTool
          /\ tool_info' = info
          /\ execute_tool_call(info, outcome) = <<>>
    /\ fetched' = outcome
    /\ response_segments' = Append(response_segments, segment)
    /\ history' = Append(history,
           AssistantTurn(Join(Append(response_segments, segment)), role_key))
    /\ tool_execs' = tool_execs + 1
    /\ tool_fails' = tool_fails + 1
    /\ UNCHANGED <<role_key, retry_count, context_to_send, has_tool_call, yielded,
                   saves, written, registered_role, provider_calls, excs, plain_ends, opc>>

\* The response ends: the for loop is left.
ProviderEnds ==
    /\ opc = "stream"
    /\ plain_ends' = plain_ends + 1
    /\ opc' = "after"
    /\ UNCHANGED <<nsegs, tool_info, fetched,
                   history, role_key, retry_count, context_to_send, response_segments,
                   has_tool_call, yielded, saves, written, registered_role, provider_calls, tool_execs,
                   tool_fails, excs>>

\* Mutant of HandlerExit: the handler re-raises once the attempts are used up.
HandlerExitReraises(count) == IF count >= max_retries THEN "raised" ELSE "loop"

\* except Exception: ... if retry_count >= max_retries: yield apology; return
HandlerExit(count) == IF count >= max_retries THEN "failed" ELSE "loop"

\* get_ai_response raises, on the call or while the stream is read.
ProviderRaises ==
    /\ opc = "stream"
    /\ excs' = excs + 1
    /\ retry_count' = retry_count + 1
    /\ opc' = HandlerExit(retry_count + 1)
    /\ yielded' = IF HandlerExit(retry_count + 1) = "failed"
                  THEN Append(yielded, APOLOGY) ELSE yielded
    /\ UNCHANGED <<nsegs, tool_info, fetched,
                   history, role_key, context_to_send, response_segments,
                   has_tool_call, saves, written, registered_role, provider_calls, tool_execs, tool_fails,
                   plain_ends>>

\* if has_tool_call: save_conversation_history(...); continue
RetrySave ==
    /\ opc = "after"
    /\ has_tool_call
    /\ history' = HistoryAfterSave(history, RoleToUse(ArgumentRole(role_key), registered_role))
    /\ saves' = Append(saves, history')
    /\ written' = Append(written,
           save_conversation_history(history, ArgumentRole(role_key), registered_role))
    /\ opc' = "loop"
    /\ UNCHANGED <<nsegs, tool_info, fetched, registered_role,
                   role_key, retry_count, context_to_send, response_segments,
                   has_tool_call, yielded, provider_calls, tool_execs, tool_fails,
                   excs, plain_ends>>

\* if full_response: append the assistant turn and save; break
Finalize ==
    /\ opc = "after"
    /\ ~has_tool_call
    /\ IF full_response # <<>>
       THEN /\ history' = HistoryAfterSave(
                              Append(history, AssistantTurn(full_response, role_key)),
                              RoleToUse(ArgumentRole(role_key), registered_role))
            /\ saves' = Append(saves, history')
            /\ written' = Append(written,
                   save_conversation_history(
                       Append(history, AssistantTurn(full_response, role_key)),
                       ArgumentRole(role_key), registered_role))
       ELSE UNCHANGED <<history, saves, written>>
    /\ opc' = "done"
    /\ UNCHANGED <<nsegs, tool_info, fetched, registered_role,
                   role_key, retry_count, context_to_send, response_segments,
                   has_tool_call, yielded, provider_calls, tool_execs, tool_fails,
                   excs, plain_ends>>

\* The personas of the registry.
Personas == {"Nya"}

\* The generator is suspended at "yield segment" and ChatService has the
\* yielded chunk parsed: a setrole tag in it makes the parser call
\* set_active_role for the chat, with the persona named or None for "default".
ParserSetsRole(new_role) ==
    /\ opc = "stream"
    /\ response_segments # <<>>
    /\ tool_info = NoTool
    /\ new_role # registered_role
    /\ registered_role' = new_role
    /\ UNCHANGED <<history, role_key, retry_count, context_to_send, response_segments,
                   has_tool_call, yielded, saves, written, provider_calls, tool_execs,
                   tool_fails, excs, plain_ends, nsegs, tool_info, fetched, opc>>

NextOrch ==
    \/ \E new_role \in Personas \cup {NO_ROLE} :
          ParserSetsRole(new_role) /\ UNCHANGED <<ctxVars, splitVars, tagVars, netVars>>
    \/ BeginAttempt /\ UNCHANGED <<ctxVars, splitVars, tagVars, netVars>>
    \/ LoopExit /\ UNCHANGED <<ctxVars, splitVars, tagVars, netVars>>
    \/ \E segment \in Segments : ForwardSegment(segment) /\ UNCHANGED <<ctxVars, splitVars, tagVars, netVars>>
    \/ \E segment \in Segments, outcome \in FetchOutcomes :
          ToolCallSucceeds(segment, outcome) /\ UNCHANGED <<ctxVars, splitVars, tagVars, netVars>>
    \/ \E segment \in Segments, outcome \in FetchOutcomes :
          ToolCallFails(segment, outcome) /\ UNCHANGED <<ctxVars, splitVars, tagVars, netVars>>
    \/ ProviderEnds /\ UNCHANGED <<ctxVars, splitVars, tagVars, netVars>>
    \/ ProviderRaises /\ UNCHANGED <<ctxVars, splitVars, tagVars, netVars>>
    \/ RetrySave /\ UNCHANGED <<ctxVars, splitVars, tagVars, netVars>>
    \/ Finalize /\ UNCHANGED <<ctxVars, splitVars, tagVars, netVars>>


(***************************************************************************)
(* Properties of the retry loop.                                           *)
(***************************************************************************)
Terminated == opc \in {"done", "failed", "exhausted", "raised"}

\* Every response so far held a tool marker and every tool call returned data.
AlwaysToolRun == excs = 0 /\ tool_fails = 0 /\ plain_ends = 0

RECURSIVE CountOf(_, _)
CountOf(list, x) ==
    IF list = <<>> THEN 0
    ELSE (IF Head(list) = x THEN 1 ELSE 0) + CountOf(Tail(list), x)

\* C1: with a provider whose every response holds a tool marker and a tool
\* that always returns data, a request performs exactly max_retries tool
\* executions and max_retries provider calls, and no provider call after them.
C1_BoundedToolRetries ==
    AlwaysToolRun =>
        /\ provider_calls <= max_retries
        /\ tool_execs <= max_retries
        /\ Terminated => (provider_calls = max_retries /\ tool_execs = max_retries)

\* Such a request has ended after max_retries tool executions.
C1_Witness ==
    /\ opc = "exhausted"
    /\ AlwaysToolRun
    /\ tool_execs = max_retries
    /\ provider_calls = max_retries
    /\ nsegs = max_retries

\* C2 (as claimed): a request that ends with the retry counter at max_retries
\* has yielded exactly one apology chunk, as its last chunk.
C2_ApologyOnExhaustion ==
    (Terminated /\ retry_count >= max_retries) =>
        /\ yielded # <<>>
        /\ yielded[Len(yielded)] = APOLOGY
        /\ CountOf(yielded, APOLOGY) = 1

\* C3: an exception of the provider is caught in the attempt: it adds one to
\* the retry counter, a new attempt is due while the counter is below
\* max_retries, otherwise the apology is yielded and the request fails; the
\* exception never reaches the caller.
C3_ProviderExceptionCaught ==
    /\ [](opc # "raised")
    /\ [][(excs' = excs + 1) =>
            /\ retry_count' = retry_count + 1
            /\ (retry_count' < max_retries =>
                    /\ opc' = "loop"
                    /\ LoopContinues(retry_count')
                    /\ yielded' = yielded)
            /\ (retry_count' >= max_retries =>
                    /\ opc' = "failed"
                    /\ yielded' = Append(yielded, APOLOGY))]_vars

\* An exception has been followed by a new attempt, and a later one by the apology.
C3_Witness ==
    /\ opc = "failed"
    /\ excs >= 2
    /\ provider_calls = excs + tool_execs
    /\ tool_execs = 1
    /\ yielded[Len(yielded)] = APOLOGY

\* The lists the claim speaks of: the turn list of the request, which is the
\* list handed to the budgeter, and every list handed to
\* save_conversation_history.
TurnLists == {history} \cup {saves[i] : i \in 1..Len(saves)}

C22_ExactlyOneFinalSave ==
    opc \in {"done", "failed"} => Len(saves) = (tool_execs - tool_fails) + 1

C26_ToolResultInjected ==
    [][/\ (has_tool_call' /\ ~has_tool_call) =>
              /\ Len(history') = Len(history) + 2
              /\ SubSeq(history', 1, Len(history)) = history
              /\ history'[Len(history) + 1].role = "assistant"
              /\ history'[Len(history) + 1].content = Join(response_segments')
              /\ check_for_tool_calls_sync(history'[Len(history) + 1].content)
                     = tool_info'
              /\ tool_info' # NoTool
              /\ history'[Len(history) + 2].role = "system"
              /\ execute_tool_call(tool_info', fetched') # <<>>
              /\ Contains(history'[Len(history) + 2].content,
                          execute_tool_call(tool_info', fetched'))
              /\ retry_count' = retry_count + 1
       /\ (has_tool_call /\ provider_calls' # provider_calls) =>
              /\ provider_calls' = provider_calls + 1
              /\ history' = history
              /\ saves # <<>>
              /\ saves[Len(saves)] = history
              /\ history[Len(history)].role = "system"
              /\ history[Len(history) - 1].role = "assistant"]_vars

\* A tool returned data, the list was saved and the next attempt has begun.
C26_Witness ==
    /\ opc = "stream"
    /\ provider_calls = 2
    /\ retry_count = 1
    /\ tool_execs = 1
    /\ tool_fails = 0
    /\ saves = <<history>>
    /\ history[Len(history)].role = "system"

\* C27 (as claimed): once a tool execution of a request has returned nothing,
\* the retry counter is not incremented and no further provider call is made
\* (the provider raising no exception), and the request ends done with the
\* text accumulated in that attempt as its final assistant turn, saved.
C27_FailOpen ==
    [][(tool_fails' > 0 /\ excs' = 0) =>
          /\ retry_count' = retry_count
          /\ provider_calls' = provider_calls
          /\ (opc' = "done" /\ opc # "done") =>
                 /\ history'[Len(history')] =
                        AssistantTurn(Join(response_segments), role_key)
                 /\ saves' = Append(saves, history')]_vars

\* C28 (as claimed): a tool execution whose history request timed out, failed
\* or was answered without data appends no system turn, leaves the retry
\* counter as it is and starts no new attempt.
C28_FailedFetchIsNoResult ==
    [][(tool_execs' = tool_execs + 1
            /\ fetched' \in {"timeout", "error", "no_response"}) =>
          /\ history'[Len(history')].role # "system"
          /\ retry_count' = retry_count
          /\ ~has_tool_call'
          /\ opc' = "stream"]_vars

\* C29 (as claimed): the tool that is detected and executed is the one whose
\* marker is the leftmost in the accumulated text.
C29_LeftmostMarkerWins ==
    [][tool_execs' = tool_execs + 1 =>
          LET text == Join(response_segments')
              g == SearchGetContext(text, 1)
              s == SearchSearchContext(text, 1)
          IN  tool_info'.type =
                  IF g # 0 /\ (s = 0 \/ g < s) THEN "get_context"
                  ELSE "search_context"]_vars

\* C30 (as claimed): the context sent to the provider holds a dialog turn only
\* if the turn's persona marker is the active persona, and, the budget being
\* far larger than the turn list, it holds every user and assistant turn
\* tagged with the active persona.
C30_ActivePersonaTurnsSent ==
    opc = "stream" =>
        /\ \A i \in 1..Len(context_to_send) :
              context_to_send[i].role # "system" =>
                  context_to_send[i].role_marker = role_key
        /\ \A i \in 1..Len(history) :
              (history[i].role \in {"user", "assistant"}
                   /\ history[i].role_marker = role_key) =>
                  \E j \in 1..Len(context_to_send) : context_to_send[j] = history[i]

\* list holds turn x.
HoldsTurn(list, x) == \E i \in 1..Len(list) : list[i] = x

\* C34 (as claimed): when the persona of the chat was changed while the
\* request was streaming, the final save still writes the file of the persona
\* that was active when the request started, and what it writes holds the
\* user turn and the assistant turn of the request.
C34_SavedUnderStartingPersona ==
    (opc = "done" /\ full_response # <<>>
         /\ registered_role # ArgumentRole(role_key)) =>
        /\ written # <<>>
        /\ written[Len(written)].file = get_history_file(ArgumentRole(role_key))
        /\ HoldsTurn(written[Len(written)].turns, UserTurn(SEG_TEXT, role_key))
        /\ HoldsTurn(written[Len(written)].turns, AssistantTurn(full_response, role_key))

\* C35 (as claimed): a save leaves every turn of the orchestrator's list as it
\* was, so every attempt sends the system turn built at the start of the
\* request.
C35_SaveLeavesListUnchanged ==
    [][/\ Len(saves') > Len(saves) =>
              \A i \in 1..Len(history) : history'[i] = history[i]
       /\ provider_calls' # provider_calls =>
              (context_to_send' # <<>> /\ context_to_send'[1] = SystemTurn(2))]_vars

RECURSIVE CountRole(_, _)
CountRole(list, r) ==
    IF list = <<>> THEN 0
    ELSE (IF Head(list).role = r THEN 1 ELSE 0) + CountRole(Tail(list), r)

\* C36 (as claimed): an attempt executes at most one tool call and appends at
\* most one assistant turn: a step that does either finds that the attempt
\* has executed no tool call yet.
C36_OnePerAttempt ==
    [][(\/ tool_execs' # tool_execs
        \/ CountRole(history', "assistant") # CountRole(history, "assistant")) =>
          fetched = "none"]_vars

(***************************************************************************)
(* The stores behind the tags: the active persona of each chat and its     *)
(* switch flag (src/core/role_manager.py), the notebook                    *)
(* (src/storage/notebook.py) and the event store                           *)
(* (src/utils/event_manager.py).  Names, ids and contents are texts:       *)
(* sequences of characters.  A dict is a function on its keys.             *)
(***************************************************************************)
\* Python's None.
None == <<"None">>

\* dict.get(key)
Get(dict, key) == IF key \in DOMAIN dict THEN dict[key] ELSE None

\* dict[key] = value
Put(dict, key, value) ==
    [k \in DOMAIN dict \cup {key} |-> IF k = key THEN value ELSE dict[k]]

\* del dict[key]; dict.pop(key, ...)
Del(dict, key) == [k \in DOMAIN dict \ {key} |-> dict[k]]

\* load_roles(): the names of the persona registry data/roles.json
load_roles == {<<"N", "y", "a">>, <<"M", "i", "a">>}

RoleChangedAlways(old_role, normalized_new_role_name) == TRUE

\* if old_role != normalized_new_role_name
RoleChanged(old_role, normalized_new_role_name) == old_role # normalized_new_role_name

\* Mutant of set_active_role: the name is not looked up in the registry.
set_active_role_unregistered(roles, flags, state_key, role_name) ==
    LET old_role == Get(roles, state_key)
        normalized_new_role_name ==
            IF role_name # None /\ role_name # <<>> THEN Strip(role_name) ELSE None
    IN  IF normalized_new_role_name = None
        THEN IF state_key \in DOMAIN roles
             THEN [active_roles |-> Del(roles, state_key),
                   role_switch_flags |->
                       IF old_role # None THEN Put(flags, state_key, TRUE) ELSE flags,
                   ret |-> TRUE]
             ELSE [active_roles |-> roles, role_switch_flags |-> flags, ret |-> TRUE]
        ELSE IF RoleChanged(old_role, normalized_new_role_name)
        THEN [active_roles |-> Put(roles, state_key, normalized_new_role_name),
              role_switch_flags |-> Put(flags, state_key, TRUE),
              ret |-> TRUE]
        ELSE [active_roles |-> roles, role_switch_flags |-> flags, ret |-> TRUE]

\* role_manager.set_active_role(chat_id, chat_type, role_name), state_key the pair
\* (chat_id, chat_type): the two dicts after the call and the returned value.
set_active_role(roles, flags, state_key, role_name) ==
    LET old_role == Get(roles, state_key)
        normalized_new_role_name ==
            IF role_name # None /\ role_name # <<>> THEN Strip(role_name) ELSE None
    IN  IF normalized_new_role_name = None
        THEN IF state_key \in DOMAIN roles
             THEN [active_roles |-> Del(roles, state_key),
                   role_switch_flags |->
                       IF old_role # None THEN Put(flags, state_key, TRUE) ELSE flags,
                   ret |-> TRUE]
             ELSE [active_roles |-> roles, role_switch_flags |-> flags, ret |-> TRUE]
        ELSE IF normalized_new_role_name \notin load_roles
        THEN [active_roles |-> roles, role_switch_flags |-> flags, ret |-> FALSE]
        ELSE IF RoleChanged(old_role, normalized_new_role_name)
        THEN [active_roles |-> Put(roles, state_key, normalized_new_role_name),
              role_switch_flags |-> Put(flags, state_key, TRUE),
              ret |-> TRUE]
        ELSE [active_roles |-> roles, role_switch_flags |-> flags, ret |-> TRUE]

\* role_manager.check_and_clear_role_switch_flag: role_switch_flags.pop(state_key, False)
check_and_clear_role_switch_flag(flags, state_key) ==
    [role_switch_flags |-> Del(flags, state_key),
     ret |-> state_key \in DOMAIN flags /\ flags[state_key]]

\* The characters of storage.notebook.DEFAULT_ROLE_KEY.
GLOBAL_ROLE_KEY == <<"_", "_", "g", "l", "o", "b", "a", "l", "_", "_">>

\* self.notes[role] of the defaultdict(list)
NotesOf(book, role) == IF role \in DOMAIN book THEN book[role] ELSE <<>>

NextIdIsCount(book, role) == Len(NotesOf(book, role)) + 1

\* AINotebook._get_next_id
get_next_id(book, role) ==
    LET notes_list == NotesOf(book, role)
        ids == {notes_list[i].id : i \in 1..Len(notes_list)}
    IN  IF notes_list = <<>> THEN 1
        ELSE (CHOOSE m \in ids : \A n \in ids : n <= m) + 1

\* AINotebook.add_note: the notebook after the call and the returned id.
\* created_at, a clock reading, is left out of the note.
add_note(book, content, role) ==
    LET note_id == get_next_id(book, role)
    IN  [notes |-> Put(book, role,
                       Append(NotesOf(book, role), [id |-> note_id, content |-> content])),
         ret |-> note_id]

\* AINotebook.delete_note
delete_note(book, note_id, role) ==
    LET notes_list == NotesOf(book, role)
        kept == SelectSeq(notes_list, LAMBDA note : note.id # note_id)
    IN  [notes |-> Put(book, role, kept), ret |-> Len(kept) < Len(notes_list)]

MAX_ACTIVE_EVENTS == 50

ChatHasEventNever(evts, chat, type) == FALSE

\* the loop of register_event over the stored events: one of them is of this chat
ChatHasEvent(evts, chat, type) ==
    \E e \in DOMAIN evts : evts[e].chat_id = chat /\ evts[e].chat_type = type

\* event_manager.register_event, event_id the value uuid.uuid4() gives the call.
\* start_time, a clock reading, is left out of the record.
register_event(evts, event_id, event_type, participants, prompt_content, chat, type) ==
    IF Cardinality(DOMAIN evts) >= MAX_ACTIVE_EVENTS
    THEN [events |-> evts, ret |-> None]
    ELSE IF ChatHasEvent(evts, chat, type)
    THEN [events |-> evts, ret |-> None]
    ELSE [events |-> Put(evts, event_id,
                         [id |-> event_id, type |-> event_type,
                          participants |-> participants,
                          prompt_content |-> prompt_content,
                          chat_id |-> chat, chat_type |-> type, status |-> "active"]),
          ret |-> event_id]

\* event_manager.remove_event
remove_event(evts, event_id) ==
    IF event_id \in DOMAIN evts
    THEN [events |-> Del(evts, event_id), ret |-> TRUE]
    ELSE [events |-> evts, ret |-> FALSE]

(***************************************************************************)
(* The output tag parser: messaging.ai_parser.parse_ai_message_to_segments.*)
(* Positions are 1-based; last_idx counts the characters already consumed. *)
(***************************************************************************)
\* The alternatives of SILENT_TAG_PATTERN, r"\[(note|setrole|event|event_end|get_context):.*?\]"
SILENT_TAG_PATTERN == <<<<"n", "o", "t", "e">>, <<"s", "e", "t", "r", "o", "l", "e">>, <<"e", "v", "e", "n", "t">>, <<"e", "v", "e", "n", "t", "_", "e", "n", "d">>, <<"g", "e", "t", "_", "c", "o", "n", "t", "e", "x", "t">>>>

\* The alternatives of VISIBLE_TAG_PATTERN,
\* r"\[(reply|@qq|CQ:at|music|poke|emoji|longtext):.*?\]"
VISIBLE_TAG_PATTERN == <<<<"r", "e", "p", "l", "y">>, <<"@", "q", "q">>, <<"C", "Q", ":", "a", "t">>, <<"m", "u", "s", "i", "c">>, <<"p", "o", "k", "e">>, <<"e", "m", "o", "j", "i">>, <<"l", "o", "n", "g", "t", "e", "x", "t">>>>

\* Position of the "]" that ends a match of r"\[(name|...):.*?\]" starting at p;
\* 0 if there is no match at p.
TagEndAt(text, names, p) ==
    LET ks == {k \in 1..Len(names) : OccursAt(text, <<"[">> \o names[k] \o <<":">>, p)}
    IN  IF ks = {} THEN 0
        ELSE LET k == CHOOSE k \in ks : TRUE
             IN  FindFrom(text, <<"]">>, p + Len(names[k]) + 2)

\* pattern.finditer: start of the leftmost match at or after from; 0 if none.
RECURSIVE NextTag(_, _, _)
NextTag(text, names, from) ==
    IF from > Len(text) THEN 0
    ELSE IF TagEndAt(text, names, from) # 0 THEN from
    ELSE NextTag(text, names, from + 1)

\* pattern.sub("", text), from position from on
RECURSIVE RemoveTags(_, _, _)
RemoveTags(text, names, from) ==
    LET p == NextTag(text, names, from)
    IN  IF p = 0 THEN SubSeq(text, from, Len(text))
        ELSE SubSeq(text, from, p - 1) \o RemoveTags(text, names, TagEndAt(text, names, p) + 1)

\* str.split(sep, maxsplit), sep one character
RECURSIVE Split(_, _, _)
Split(text, sep, maxsplit) ==
    LET p == Find(text, <<sep>>)
    IN  IF maxsplit = 0 \/ p = 0 THEN <<text>>
        ELSE <<SubSeq(text, 1, p - 1)>> \o Split(SubSeq(text, p + 1, Len(text)), sep, maxsplit - 1)

\* re.sub(r'\s+', ' ', text)
RECURSIVE CollapseWhitespace(_)
CollapseWhitespace(text) ==
    IF text = <<>> THEN <<>>
    ELSE IF Head(text) \in Whitespace THEN <<" ">> \o CollapseWhitespace(LStrip(text))
    ELSE <<Head(text)>> \o CollapseWhitespace(Tail(text))

\* _clean_tag_content
clean_tag_content(content) == CollapseWhitespace(Strip(content))

\* str.lower() on the letters A-Z
Lower(text) ==
    LET UPPER == <<"A", "B", "C", "D", "E", "F", "G", "H", "I", "J", "K", "L", "M", "N", "O", "P", "Q", "R", "S", "T", "U", "V", "W", "X", "Y", "Z">>
        LOWER == <<"a", "b", "c", "d", "e", "f", "g", "h", "i", "j", "k", "l", "m", "n", "o", "p", "q", "r", "s", "t", "u", "v", "w", "x", "y", "z">>
    IN  [i \in 1..Len(text) |->
            IF \E k \in 1..26 : UPPER[k] = text[i]
            THEN LOWER[CHOOSE k \in 1..26 : UPPER[k] = text[i]]
            ELSE text[i]]

\* int(text) for a text of digits with surrounding whitespace
RECURSIVE IntOfDigits(_)
IntOfDigits(text) ==
    IF text = <<>> THEN 0
    ELSE 10 * IntOfDigits(SubSeq(text, 1, Len(text) - 1))
         + (CHOOSE d \in 0..9 : <<"0", "1", "2", "3", "4", "5", "6", "7", "8", "9">>[d + 1] = text[Len(text)])

\* int(text) returns: it raises ValueError for any other text (signs and underscores
\* are not among the inputs)
IsInt(text) == Strip(text) # <<>> /\ \A i \in 1..Len(Strip(text)) : Strip(text)[i] \in Digits

\* re.search(r'\d+', content): the leftmost run of digits, None if there is no digit
SearchDigits(content) ==
    LET ps == {p \in 1..Len(content) : content[p] \in Digits}
    IN  IF ps = {} THEN None
        ELSE LET p == CHOOSE p \in ps : \A q \in ps : p <= q
             IN  SubSeq(content, p, DigitsEnd(content, p) - 1)

\* One step of the loop of _handle_silent_tags over a tag with this type and content.
\* st holds the stores, the number of store calls made and of uuids drawn so far;
\* an exception raised inside the try block is caught and leaves the loop running.
HandleSilentTag(tag_type, content, role_for_processing, chat, type, uuids, st) ==
    LET called == [st EXCEPT !.effects = @ + 1]
    IN  CASE tag_type = <<"n", "o", "t", "e">> ->
                 IF Len(content) >= 7
                    /\ SubSeq(content, Len(content) - 6, Len(content)) = <<":", "d", "e", "l", "e", "t", "e">>
                 THEN LET note_id_str == SubSeq(content, 1, Len(content) - 7)
                      IN  IF ~IsInt(note_id_str) THEN st
                          ELSE [called EXCEPT !.notes =
                                   delete_note(st.notes, IntOfDigits(Strip(note_id_str)),
                                               role_for_processing).notes]
                 ELSE [called EXCEPT !.notes =
                          add_note(st.notes, content, role_for_processing).notes]
          [] tag_type = <<"s", "e", "t", "r", "o", "l", "e">> ->
                 LET new_role == IF Lower(content) = <<"d", "e", "f", "a", "u", "l", "t">> THEN None ELSE content
                     r == set_active_role(st.active_roles, st.role_switch_flags,
                                          <<chat, type>>, new_role)
                 IN  [called EXCEPT !.active_roles = r.active_roles,
                                    !.role_switch_flags = r.role_switch_flags]
          [] tag_type = <<"e", "v", "e", "n", "t">> ->
                 LET parts == Split(content, ":", 2)
                 IN  IF Len(parts) = 3
                     THEN LET stripped == [i \in 1..Len(Split(parts[2], ",", Len(parts[2]))) |->
                                               Strip(Split(parts[2], ",", Len(parts[2]))[i])]
                              participants == SelectSeq(stripped, LAMBDA p : p # <<>>)
                              r == register_event(st.events, uuids[st.nuuid + 1], parts[1],
                                                  participants, parts[3], chat, type)
                          IN  [called EXCEPT !.events = r.events, !.nuuid = @ + 1]
                     ELSE st
          [] tag_type = <<"e", "v", "e", "n", "t", "_", "e", "n", "d">> ->
                 [called EXCEPT !.events = remove_event(st.events, content).events]
          [] OTHER -> st

\* The loop of _handle_silent_tags over the matches of SILENT_TAG_PATTERN.
RECURSIVE SilentLoop(_, _, _, _, _, _, _)
SilentLoop(text, from, role_for_processing, chat, type, uuids, st) ==
    LET p == NextTag(text, SILENT_TAG_PATTERN, from)
    IN  IF p = 0 THEN st
        ELSE LET e == TagEndAt(text, SILENT_TAG_PATTERN, p)
                 parts == Split(SubSeq(text, p + 1, e - 1), ":", 1)
             IN  SilentLoop(text, e + 1, role_for_processing, chat, type, uuids,
                            HandleSilentTag(parts[1], parts[2], role_for_processing,
                                            chat, type, uuids, st))

CleanedTextUnstripped(text) == RemoveTags(text, SILENT_TAG_PATTERN, 1)

\* cleaned_text = SILENT_TAG_PATTERN.sub("", text).strip()
CleanedText(text) == Strip(RemoveTags(text, SILENT_TAG_PATTERN, 1))

\* _handle_silent_tags: the stores after the loop and the cleaned text, with
\* role_for_processing = active_role_name or role_manager.get_active_role(...) or
\* DEFAULT_ROLE_KEY read once before the loop
handle_silent_tags(text, chat, type, role_name, uuids, stores) ==
    LET active == Get(stores.active_roles, <<chat, type>>)
        role_for_processing ==
            IF role_name # None /\ role_name # <<>> THEN role_name
            ELSE IF active # None /\ active # <<>> THEN active
            ELSE GLOBAL_ROLE_KEY
    IN  [st |-> SilentLoop(text, 1, role_for_processing, chat, type, uuids, stores),
         cleaned_text |-> CleanedText(text)]

\* Position of the "]" that ends a match of r"\[reply(?:\s*:\s*(\d+))?\]" starting at p,
\* with the position where group 1 starts (0 without the group); end 0 if no match at p.
ReplyAt(text, p) ==
    LET q == p + 6
        c == Len(text) - Len(LStrip(SubSeq(text, q, Len(text)))) + 1
        d == Len(text) - Len(LStrip(SubSeq(text, c + 1, Len(text)))) + 1
        e == DigitsEnd(text, d)
    IN  IF ~OccursAt(text, <<"[">> \o <<"r", "e", "p", "l", "y">>, p) THEN [end |-> 0, group |-> 0]
        ELSE IF q <= Len(text) /\ text[q] = "]" THEN [end |-> q, group |-> 0]
        ELSE IF c <= Len(text) /\ text[c] = ":" /\ e > d /\ e <= Len(text) /\ text[e] = "]"
        THEN [end |-> e, group |-> d]
        ELSE [end |-> 0, group |-> 0]

\* re.search of the reply pattern: start of the leftmost match at or after from; 0 if none
RECURSIVE SearchReply(_, _)
SearchReply(text, from) ==
    IF from > Len(text) THEN 0
    ELSE IF ReplyAt(text, from).end # 0 THEN from
    ELSE SearchReply(text, from + 1)

\* re.sub(r"\[reply(?:\s*:\s*\d+)?\]", "", text), from position from on
RECURSIVE RemoveReplies(_, _)
RemoveReplies(text, from) ==
    LET p == SearchReply(text, from)
    IN  IF p = 0 THEN SubSeq(text, from, Len(text))
        ELSE SubSeq(text, from, p - 1) \o RemoveReplies(text, ReplyAt(text, p).end + 1)

\* A message segment {"type": type, "data": {...}}; data is the one value the segment
\* carries: the text, the qq, the reply id, the id of the emoji whose file and url
\* are sent, the query whose song id the music API returned.
Segment(type, data) == [type |-> type, data |-> data]

\* segments_placeholders.append(None): an open placeholder
PLACEHOLDER == Segment("None", <<>>)

\* An exception among the results of asyncio.gather(..., return_exceptions=True)
EXCEPTION == Segment("Exception", <<>>)

\* emoji_storage.emoji_data["emojis"]: the ids of the catalog
EmojiCatalog == {<<"o", "k">>}

emoji_segment_dropped(emoji_id) ==
    IF emoji_id \in EmojiCatalog THEN Segment("image", emoji_id) ELSE Segment("text", <<>>)

\* The emoji branch of _parse_visible_tags: the image of
\* emoji_storage.find_emoji_by_id(emoji_id), or f"[emoji not found: {emoji_id}]"
emoji_segment(emoji_id) ==
    IF emoji_id \in EmojiCatalog THEN Segment("image", emoji_id)
    ELSE Segment("text", <<"[", "e", "m", "o", "j", "i", " ", "n", "o", "t", " ", "f", "o", "u", "n", "d", ":", " ">> \o emoji_id \o <<"]">>)

\* The loop of _parse_visible_tags over the matches of VISIBLE_TAG_PATTERN and the
\* text after the last one.  acc holds segments_placeholders, the queries of
\* music_tasks, music_indices, and whether the loop raised.
RECURSIVE VisibleLoop(_, _, _, _)
VisibleLoop(text, from, last_idx, acc) ==
    LET p == NextTag(text, VISIBLE_TAG_PATTERN, from)
    IN  IF p = 0
        THEN IF last_idx < Len(text)
             THEN [acc EXCEPT !.segs = Append(@, Segment("text", SubSeq(text, last_idx + 1, Len(text))))]
             ELSE acc
        ELSE LET e == TagEndAt(text, VISIBLE_TAG_PATTERN, p)
                 parts == Split(SubSeq(text, p + 1, e - 1), ":", 1)
                 tag_type == parts[1]
                 content == parts[2]
                 segs == IF p - 1 > last_idx
                         THEN Append(acc.segs, Segment("text", SubSeq(text, last_idx + 1, p - 1)))
                         ELSE acc.segs
                 emoji_id == clean_tag_content(content)
             IN  CASE tag_type = <<"r", "e", "p", "l", "y">> ->
                          VisibleLoop(text, e + 1, last_idx, [acc EXCEPT !.segs = segs])
                   [] tag_type \in {<<"@", "q", "q">>, <<"C", "Q", ":", "a", "t", ",", "q", "q", "=">>, <<"p", "o", "k", "e">>} /\ SearchDigits(content) = None ->
                          [acc EXCEPT !.segs = segs, !.raised = TRUE]
                   [] tag_type \in {<<"@", "q", "q">>, <<"C", "Q", ":", "a", "t", ",", "q", "q", "=">>} /\ SearchDigits(content) # None ->
                          VisibleLoop(text, e + 1, e,
                              [acc EXCEPT !.segs = Append(segs, Segment("at", SearchDigits(content)))])
                   [] tag_type = <<"p", "o", "k", "e">> /\ SearchDigits(content) # None ->
                          VisibleLoop(text, e + 1, e,
                              [acc EXCEPT !.segs = Append(segs, Segment("poke", SearchDigits(content)))])
                   [] tag_type = <<"e", "m", "o", "j", "i">> ->
                          VisibleLoop(text, e + 1, e,
                              [acc EXCEPT !.segs = Append(segs, emoji_segment(emoji_id))])
                   [] tag_type = <<"m", "u", "s", "i", "c">> ->
                          VisibleLoop(text, e + 1, e,
                              [acc EXCEPT !.segs = Append(segs, PLACEHOLDER),
                                          !.tasks = Append(@, clean_tag_content(content)),
                                          !.indices = Append(@, Len(segs) + 1)])
                   [] tag_type = <<"l", "o", "n", "g", "t", "e", "x", "t">> ->
                          VisibleLoop(text, e + 1, e,
                              [acc EXCEPT !.segs = Append(segs, Segment("text", content))])
                   [] OTHER ->
                          VisibleLoop(text, e + 1, e, [acc EXCEPT !.segs = segs])

\* The responses the music API can give one attempt of fetch_music_data:
\* a song, no song, an aiohttp.ClientError, an asyncio.TimeoutError, another
\* exception inside the try block, an exception that escapes the coroutine.
ApiResponses == {"song", "no_song", "client_error", "timeout", "error", "escapes"}

\* fetch_music_data(session, query, max_retries=1), responses the response of each
\* attempt: the returned segment, or the exception that escapes.  Each text is
\* a fixed wording, one element here, followed by the query.
RECURSIVE fetch_music_data(_, _, _)
fetch_music_data(query, responses, retries) ==
    LET response == responses[retries + 1]
    IN  CASE response = "song" -> Segment("music", query)
          [] response = "no_song" -> Segment("text", <<"song not found: ">> \o query)
          [] response \in {"client_error", "timeout"} ->
                 IF retries + 1 <= 1 THEN fetch_music_data(query, responses, retries + 1)
                 ELSE IF response = "timeout"
                 THEN Segment("text", <<"music search timed out: ">> \o query)
                 ELSE Segment("text", <<"music search failed: ">> \o query)
          [] response = "error" -> Segment("text", <<"music request error: ">> \o query)
          [] OTHER -> EXCEPTION

PlaceholderOfCompletion(indices, order, idx) == indices[order[idx]]

\* placeholder_idx = music_indices[idx], for the idx-th result of asyncio.gather
PlaceholderOf(indices, order, idx) == indices[idx]

\* The write-back loop after asyncio.gather(*music_tasks, return_exceptions=True).
RECURSIVE WriteBack(_, _, _, _, _)
WriteBack(placeholders, indices, results, order, idx) ==
    IF idx > Len(indices) THEN placeholders
    ELSE WriteBack([placeholders EXCEPT ![PlaceholderOf(indices, order, idx)] =
                        IF results[idx] = EXCEPTION
                        THEN Segment("text", <<"[", "M", "u", "s", "i", "c", " ", "s", "e", "a", "r", "c", "h", " ", "f", "a", "i", "l", "e", "d", "]">>)
                        ELSE results[idx]],
                   indices, results, order, idx + 1)


\* The end of _parse_visible_tags: the filter of the placeholders, the space after
\* a mention, the reply segment.
FinalSegments(placeholders, should_reply, reply_to_id) ==
    LET final_segments ==
            SelectSeq(placeholders,
                      LAMBDA seg : seg # PLACEHOLDER /\ ~(seg.type = "text" /\ seg.data = <<>>))
        processed_segments ==
            [i \in 1..Len(final_segments) |->
                IF i > 1 /\ final_segments[i - 1].type = "at"
                   /\ final_segments[i].type = "text" /\ Head(final_segments[i].data) # " "
                THEN Segment("text", <<" ">> \o final_segments[i].data)
                ELSE final_segments[i]]
    IN  IF should_reply /\ reply_to_id # None /\ reply_to_id # <<>>
        THEN <<Segment("reply", reply_to_id)>> \o processed_segments
        ELSE processed_segments

\* should_reply and reply_to_id of _parse_visible_tags, for the cleaned text
ReplyToId(text, id) ==
    LET p == SearchReply(text, 1)
        m == ReplyAt(text, p)
    IN  IF p # 0 /\ m.group # 0 THEN SubSeq(text, m.group, m.end - 1) ELSE id

\* parse_ai_message_to_segments up to the await of asyncio.gather: the stores after
\* the silent pass, then either the list returned before the visible pass (direct)
\* or the placeholders and the dispatched lookups of _parse_visible_tags.
ParseSync(text, chat, type, role_name, uuids, stores) ==
    LET h == handle_silent_tags(text, chat, type, role_name, uuids, stores)
        v == VisibleLoop(RemoveReplies(h.cleaned_text, 1), 1, 0,
                         [segs |-> <<>>, tasks |-> <<>>, indices |-> <<>>, raised |-> FALSE])
    IN  IF chat = None \/ chat = <<>>
        THEN [st |-> stores, direct |-> TRUE, raised |-> FALSE, tasks |-> <<>>,
              indices |-> <<>>,
              segs |-> IF text # <<>> THEN <<Segment("text", text)>> ELSE <<>>]
        ELSE IF Strip(h.cleaned_text) = <<>>
        THEN [st |-> h.st, direct |-> TRUE, raised |-> FALSE, tasks |-> <<>>,
              indices |-> <<>>, segs |-> <<>>]
        ELSE [st |-> h.st, direct |-> FALSE, raised |-> v.raised, tasks |-> v.tasks,
              indices |-> v.indices, segs |-> v.segs]

\* The list _parse_visible_tags returns for the chunk text once its placeholders are filled.
Returned(text, id, placeholders) ==
    FinalSegments(placeholders, SearchReply(CleanedText(text), 1) # 0,
                  ReplyToId(CleanedText(text), id))

\* The adapter calls of the chunk loop of ChatService.handle_message_received for
\* the parsed segments: batches of ordinary segments, a poke or a song on its own.
RECURSIVE SendLoop(_, _, _, _)
SendLoop(parsed_segments, i, message_batch, calls) ==
    LET flushed == IF message_batch # <<>>
                   THEN Append(calls, [api |-> "send_message", message |-> message_batch,
                                       user |-> <<>>])
                   ELSE calls
        segment == parsed_segments[i]
    IN  IF i > Len(parsed_segments) THEN flushed
        ELSE IF segment.type = "poke"
        THEN SendLoop(parsed_segments, i + 1, <<>>,
                      IF segment.data # <<>>
                      THEN Append(flushed, [api |-> "send_poke", message |-> <<>>,
                                            user |-> segment.data])
                      ELSE flushed)
        ELSE IF segment.type = "music"
        THEN SendLoop(parsed_segments, i + 1, <<>>,
                      Append(flushed, [api |-> "send_message", message |-> <<segment>>,
                                       user |-> <<>>]))
        ELSE SendLoop(parsed_segments, i + 1, Append(message_batch, segment), calls)

(***************************************************************************)
(* Inputs of the parser: chunks of at most two pieces, and three of three. *)
(***************************************************************************)
MaxChunks == 2

EventIds == {<<"e", "1">>, <<"e", "2">>, <<"e", "3">>}

Chunks ==
    LET Pieces ==
    {<<"H", "i">>, <<" ", "y", "o", " ">>, <<"[", "s", "e", "t", "r", "o", "l", "e", ":", "N", "y", "a", "]">>, <<"[", "n", "o", "t", "e", ":", "c", "a", "t", "s", "]">>, <<"[", "n", "o", "t", "e", ":", "1", ":", "d", "e", "l", "e", "t", "e", "]">>,
     <<"[", "e", "v", "e", "n", "t", ":", "t", ":", "1", ":", "p", "]">>, <<"[", "e", "v", "e", "n", "t", "_", "e", "n", "d", ":", "e", "1", "]">>, <<"[", "m", "u", "s", "i", "c", ":", "A", "]">>, <<"[", "e", "m", "o", "j", "i", ":", "z", "z", "z", "]">>,
     <<"[", "@", "q", "q", ":", "1", "2", "]">>, <<"[", "@", "q", "q", ":", "a", "b", "]">>, <<"[", "r", "e", "p", "l", "y", "]">>}
    IN
    Pieces \cup {a \o b : a, b \in Pieces}
    \cup {<<"[", "m", "u", "s", "i", "c", ":", "A", "]", " ", "t", "e", "x", "t", " ", "[", "m", "u", "s", "i", "c", ":", "B", "]">>, <<"[", "s", "e", "t", "r", "o", "l", "e", ":", "N", "y", "a", "]", "[", "n", "o", "t", "e", ":", "l", "i", "k", "e", "s", " ", "c", "a", "t", "s", "]", "H", "i">>,
          <<"[", "n", "o", "t", "e", "[", "n", "o", "t", "e", ":", "x", "]", ":", "y", "]">>, <<"[", "l", "o", "n", "g", "t", "e", "x", "t", ":", "a", "\n", "b", "]", "[", "C", "Q", ":", "a", "t", ",", "q", "q", "=", "1", "2", "]", " ">>, <<"[", "r", "e", "p", "l", "y", ":", "7", "]", "H", "i">>,
          <<"[", "p", "o", "k", "e", ":", "1", "2", "]", "[", "e", "m", "o", "j", "i", ":", "o", "k", "]">>, <<"H", "i", "[", "p", "o", "k", "e", ":", "a", "b", "]">>, <<"[", "s", "e", "t", "r", "o", "l", "e", ":", "d", "e", "f", "a", "u", "l", "t", "]">>, <<" ", "\n">>,
          <<"[", "@", "q", "q", ":", "1", "2", "]", " ", "[", "@", "q", "q", ":", "1", "2", "]">>}

\* The values uuid.uuid4() gives the register_event calls of one chunk: fresh ids.
UuidStreams(evts) ==
    {u \in [1..2 -> EventIds \ DOMAIN evts] : u[1] # u[2]}

\* The responses of the attempts of one lookup, up to the attempt that ends it.
ResponseRuns ==
    {<<r>> : r \in ApiResponses \ {"client_error", "timeout"}}
    \cup {<<r, s>> : r \in {"client_error", "timeout"}, s \in ApiResponses}

IdleParse ==
    /\ ptext = <<>>
    /\ message_id = None
    /\ chat_id = None
    /\ active_role_name = None
    /\ stage = "idle"
    /\ nchunks = 0
    /\ segments_placeholders = <<>>
    /\ music_tasks = <<>>
    /\ music_indices = <<>>
    /\ music_results = <<>>
    /\ completion = <<>>
    /\ segments = <<>>
    /\ sent = <<>>
    /\ effects = 0

\* The stores of a fresh installation: no active persona, no flag, no note, no event.
IdleStores ==
    /\ active_roles = <<>>
    /\ role_switch_flags = <<>>
    /\ notes = <<>>
    /\ events = <<>>
    /\ call = [op |-> "none"]
    /\ switched = {}

ResetLocals ==
    /\ ptext' = <<>>
    /\ segments_placeholders' = <<>>
    /\ music_tasks' = <<>>
    /\ music_indices' = <<>>
    /\ music_results' = <<>>
    /\ completion' = <<>>
    /\ segments' = <<>>
    /\ sent' = <<>>
    /\ effects' = 0

\* handle_message_received up to its chunk loop: the active persona is read once.
ReceiveMessage(mid, cid) ==
    /\ stage \in {"idle", "done", "failed"}
    /\ nchunks < MaxChunks
    /\ message_id' = mid
    /\ chat_id' = cid
    /\ active_role_name' = Get(active_roles, <<cid, "private">>)
    /\ stage' = "ready"
    /\ ResetLocals
    /\ UNCHANGED <<nchunks, storeVars>>

\* The next chunk of the response is handed to parse_ai_message_to_segments, which
\* runs up to its return, its exception, or the await of asyncio.gather.
ParseChunk(text, uuids) ==
    /\ stage = "ready"
    /\ nchunks < MaxChunks
    /\ \E r \in {ParseSync(text, chat_id, "private", active_role_name, uuids,
                          [active_roles |-> active_roles,
                           role_switch_flags |-> role_switch_flags,
                           notes |-> notes, events |-> events,
                           effects |-> 0, nuuid |-> 0])} :
           /\ ptext' = text
           /\ nchunks' = nchunks + 1
           /\ active_roles' = r.st.active_roles
           /\ role_switch_flags' = r.st.role_switch_flags
           /\ notes' = r.st.notes
           /\ events' = r.st.events
           /\ effects' = r.st.effects
           /\ segments_placeholders' = r.segs
           /\ music_tasks' = r.tasks
           /\ music_indices' = r.indices
           /\ stage' = IF r.raised THEN "raised"
                       ELSE IF r.tasks # <<>> THEN "gathering" ELSE "returned"
           /\ segments' = IF r.raised \/ r.tasks # <<>> THEN <<>>
                          ELSE IF r.direct THEN r.segs
                          ELSE Returned(text, message_id, r.segs)
    /\ music_results' = <<>>
    /\ completion' = <<>>
    /\ sent' = <<>>
    /\ UNCHANGED <<message_id, chat_id, active_role_name, call, switched>>

\* One of the lookups awaited by asyncio.gather completes.
LookupCompletes(idx, responses) ==
    /\ stage = "gathering"
    /\ idx \in 1..Len(music_tasks)
    /\ idx \notin DOMAIN music_results
    /\ music_results' = Put(music_results, idx, fetch_music_data(music_tasks[idx], responses, 0))
    /\ completion' = Append(completion, idx)
    /\ UNCHANGED <<ptext, message_id, chat_id, active_role_name, stage, nchunks,
                   segments_placeholders, music_tasks, music_indices, segments, sent,
                   effects, storeVars>>

\* asyncio.gather returns; the results are written back and the list is returned.
GatherReturns ==
    /\ stage = "gathering"
    /\ DOMAIN music_results = 1..Len(music_tasks)
    /\ segments_placeholders' =
           WriteBack(segments_placeholders, music_indices, music_results, completion, 1)
    /\ segments' = Returned(ptext, message_id, segments_placeholders')
    /\ stage' = "returned"
    /\ UNCHANGED <<ptext, message_id, chat_id, active_role_name, nchunks, music_tasks,
                   music_indices, music_results, completion, sent, effects, storeVars>>

\* The body of the chunk loop after the parse: the segments go to the adapter.
Deliver ==
    /\ stage = "returned"
    /\ sent' = SendLoop(segments, 1, <<>>, <<>>)
    /\ stage' = "delivered"
    /\ UNCHANGED <<ptext, message_id, chat_id, active_role_name, nchunks,
                   segments_placeholders, music_tasks, music_indices, music_results,
                   completion, segments, effects, storeVars>>

\* The loop goes on to the next chunk of process_conversation.
NextChunk ==
    /\ stage = "delivered"
    /\ stage' = "ready"
    /\ ResetLocals
    /\ UNCHANGED <<message_id, chat_id, active_role_name, nchunks, storeVars>>

\* process_conversation is exhausted: the handler returns.
ResponseEnds ==
    /\ stage = "ready"
    /\ stage' = "done"
    /\ UNCHANGED <<ptext, message_id, chat_id, active_role_name, nchunks,
                   segments_placeholders, music_tasks, music_indices, music_results,
                   completion, segments, sent, effects, storeVars>>

\* except Exception of handle_message_received: the loop is left, an error message
\* is sent, the chunks not yet taken from process_conversation are dropped.
HandlerCatches ==
    /\ stage = "raised"
    /\ sent' = <<[api |-> "send_message",
                 message |-> <<Segment("text", <<"internal error apology">>)>>,
                 user |-> <<>>]>>
    /\ stage' = "failed"
    /\ UNCHANGED <<ptext, message_id, chat_id, active_role_name, nchunks,
                   segments_placeholders, music_tasks, music_indices, music_results,
                   completion, segments, effects, storeVars>>

NextParse ==
    \/ \E mid \in {None, <<"9">>}, cid \in {None, <<"c", "1">>} :
          ReceiveMessage(mid, cid) /\ UNCHANGED <<ctxVars, splitVars, orchVars, netVars>>
    \/ /\ stage = "ready"
       /\ nchunks < MaxChunks
       /\ \E text \in Chunks :
             \E uuids \in IF Contains(text, <<"[", "e", "v", "e", "n", "t", ":">>) THEN UuidStreams(events)
                           ELSE {CHOOSE u \in UuidStreams(events) : TRUE} :
                ParseChunk(text, uuids)
       /\ UNCHANGED <<ctxVars, splitVars, orchVars, netVars>>
    \/ \E idx \in 1..Len(music_tasks), responses \in ResponseRuns :
          LookupCompletes(idx, responses) /\ UNCHANGED <<ctxVars, splitVars, orchVars, netVars>>
    \/ GatherReturns /\ UNCHANGED <<ctxVars, splitVars, orchVars, netVars>>
    \/ Deliver /\ UNCHANGED <<ctxVars, splitVars, orchVars, netVars>>
    \/ NextChunk /\ UNCHANGED <<ctxVars, splitVars, orchVars, netVars>>
    \/ ResponseEnds /\ UNCHANGED <<ctxVars, splitVars, orchVars, netVars>>
    \/ HandlerCatches /\ UNCHANGED <<ctxVars, splitVars, orchVars, netVars>>

(***************************************************************************)
(* The stores called on their own, by any caller, from a fresh             *)
(* installation.  call records the last call and what it returned;         *)
(* switched holds the chats whose active persona changed since the last    *)
(* read of their flag.                                                     *)
(***************************************************************************)
MaxNoteId == 4

\* The (chat_id, chat_type) keys of the calls
StateKeys == {<<chat, type>> : chat \in {<<"c", "1">>, <<"c", "2">>}, type \in {"private", "group"}}

\* The role_name arguments: None, the empty text, registered names (one with
\* surrounding whitespace), a name that is not registered
RoleNames == {None, <<>>, <<"N", "y", "a">>, <<" ", "N", "y", "a", " ">>, <<"M", "i", "a">>, <<"Z", "e", "d">>}

\* A call of event_manager.register_event
RegisterEvent(event_id, state_key) ==
    LET r == register_event(events, event_id, <<"t">>, <<>>, <<"p">>,
                            state_key[1], state_key[2])
    IN  /\ events' = r.events
        /\ call' = [op |-> "register_event", state_key |-> state_key, ret |-> r.ret]
        /\ UNCHANGED <<active_roles, role_switch_flags, notes, switched, parseVars>>

\* A call of event_manager.remove_event
RemoveEvent(event_id) ==
    LET r == remove_event(events, event_id)
    IN  /\ events' = r.events
        /\ call' = [op |-> "remove_event", event_id |-> event_id, ret |-> r.ret]
        /\ UNCHANGED <<active_roles, role_switch_flags, notes, switched, parseVars>>

NextEvents ==
    \/ \E event_id \in (EventIds \cup {<<"e", "4">>, <<"e", "5">>}) \ DOMAIN events,
          state_key \in StateKeys :
          RegisterEvent(event_id, state_key) /\ UNCHANGED <<ctxVars, splitVars, orchVars, netVars>>
    \/ \E event_id \in EventIds \cup {<<"e", "4">>, <<"e", "5">>} :
          RemoveEvent(event_id) /\ UNCHANGED <<ctxVars, splitVars, orchVars, netVars>>

\* A call of role_manager.set_active_role
SetActiveRole(state_key, role_name) ==
    LET r == set_active_role(active_roles, role_switch_flags, state_key, role_name)
    IN  /\ active_roles' = r.active_roles
        /\ role_switch_flags' = r.role_switch_flags
        /\ switched' = IF Get(r.active_roles, state_key) # Get(active_roles, state_key)
                       THEN switched \cup {state_key}
                       ELSE switched
        /\ call' = [op |-> "set_active_role", state_key |-> state_key, ret |-> r.ret]
        /\ UNCHANGED <<notes, events, parseVars>>

\* A call of role_manager.check_and_clear_role_switch_flag
CheckAndClearRoleSwitchFlag(state_key) ==
    LET r == check_and_clear_role_switch_flag(role_switch_flags, state_key)
    IN  /\ role_switch_flags' = r.role_switch_flags
        /\ switched' = switched \ {state_key}
        /\ call' = [op |-> "check_and_clear_role_switch_flag", state_key |-> state_key,
                    ret |-> r.ret]
        /\ UNCHANGED <<active_roles, notes, events, parseVars>>

NextRoles ==
    \/ \E state_key \in StateKeys, role_name \in RoleNames :
          SetActiveRole(state_key, role_name) /\ UNCHANGED <<ctxVars, splitVars, orchVars, netVars>>
    \/ \E state_key \in StateKeys :
          CheckAndClearRoleSwitchFlag(state_key)
          /\ UNCHANGED <<ctxVars, splitVars, orchVars, netVars>>

\* A call of notebook.add_note
AddNote(content, role) ==
    LET r == add_note(notes, content, role)
    IN  /\ r.ret <= MaxNoteId
        /\ notes' = r.notes
        /\ call' = [op |-> "add_note", role |-> role, content |-> content, ret |-> r.ret]
        /\ UNCHANGED <<active_roles, role_switch_flags, events, switched, parseVars>>

\* A call of notebook.delete_note
DeleteNote(note_id, role) ==
    LET r == delete_note(notes, note_id, role)
    IN  /\ notes' = r.notes
        /\ call' = [op |-> "delete_note", role |-> role, note_id |-> note_id, ret |-> r.ret]
        /\ UNCHANGED <<active_roles, role_switch_flags, events, switched, parseVars>>

NextNotes ==
    \/ \E role \in {GLOBAL_ROLE_KEY, <<"N", "y", "a">>} :
          AddNote(<<"c", "a", "t", "s">>, role) /\ UNCHANGED <<ctxVars, splitVars, orchVars, netVars>>
    \/ \E note_id \in 1..MaxNoteId, role \in {GLOBAL_ROLE_KEY, <<"N", "y", "a">>} :
          DeleteNote(note_id, role) /\ UNCHANGED <<ctxVars, splitVars, orchVars, netVars>>


(***************************************************************************)
(* Properties of the output tag parser.                                    *)
(***************************************************************************)
\* The queries of the music tags of a text, left to right.
RECURSIVE MusicQueriesFrom(_, _)
MusicQueriesFrom(text, from) ==
    LET p == NextTag(text, <<<<"m", "u", "s", "i", "c">>>>, from)
        e == TagEndAt(text, <<<<"m", "u", "s", "i", "c">>>>, p)
    IN  IF p = 0 THEN <<>>
        ELSE <<clean_tag_content(SubSeq(text, p + 7, e - 1))>> \o MusicQueriesFrom(text, e + 1)

\* The segments of a list that came from a lookup of the query: its song or one of
\* its error texts.
OfQuery(seg, query) ==
    \/ seg = Segment("music", query)
    \/ /\ seg.type = "text"
       /\ Len(seg.data) = Len(query) + 1
       /\ SubSeq(seg.data, 2, Len(seg.data)) = query

\* C11: when a chunk holds several music tags whose lookups complete in any order,
\* the result of each lookup (its song, its error text, or the failure text of a
\* lookup that raised) stands at the placeholder of its own tag, and the
\* placeholders stand in the left-to-right order of the tags in the chunk.
C11_MusicResultsInSourceOrder ==
    (stage = "returned" /\ music_tasks # <<>>) =>
        /\ music_tasks = MusicQueriesFrom(RemoveReplies(CleanedText(ptext), 1), 1)
        /\ \A i, j \in 1..Len(music_tasks) : i < j => music_indices[i] < music_indices[j]
        /\ \A idx \in 1..Len(music_tasks) :
              LET seg == segments_placeholders[music_indices[idx]]
              IN  IF music_results[idx] = EXCEPTION
                  THEN seg = Segment("text", <<"[", "M", "u", "s", "i", "c", " ", "s", "e", "a", "r", "c", "h", " ", "f", "a", "i", "l", "e", "d", "]">>)
                  ELSE seg = music_results[idx] /\ OfQuery(seg, music_tasks[idx])
        /\ segments = Returned(ptext, message_id, segments_placeholders)

\* The lookup of the second tag completed before the lookup of the first one, with a
\* different result, and the first segment is still the one of the first tag.
C11_Witness ==
    /\ stage = "returned"
    /\ ptext = <<"[", "m", "u", "s", "i", "c", ":", "A", "]", " ", "t", "e", "x", "t", " ", "[", "m", "u", "s", "i", "c", ":", "B", "]">>
    /\ completion = <<2, 1>>
    /\ music_results[1] = Segment("music", <<"A">>)
    /\ music_results[2].type = "text"
    /\ segments[Len(segments) - 2] = Segment("music", <<"A">>)
    /\ segments[Len(segments)] = music_results[2]

\* C12: after the first chunk of a chat with no active persona, a chunk that holds
\* a setrole to Nya followed by a note, Nya is the chat's active persona and the
\* note is stored in Nya's notebook and in no other notebook.
C12_NoteGoesToNewPersona ==
    (/\ nchunks = 1
     /\ stage = "returned"
     /\ chat_id # None
     /\ ptext \in {<<"[", "s", "e", "t", "r", "o", "l", "e", ":", "N", "y", "a", "]", "[", "n", "o", "t", "e", ":", "l", "i", "k", "e", "s", " ", "c", "a", "t", "s", "]", "H", "i">>, <<"[", "s", "e", "t", "r", "o", "l", "e", ":", "N", "y", "a", "]", "[", "n", "o", "t", "e", ":", "c", "a", "t", "s", "]">>}) =>
        /\ Get(active_roles, <<chat_id, "private">>) = <<"N", "y", "a">>
        /\ Len(NotesOf(notes, <<"N", "y", "a">>)) = 1
        /\ NotesOf(notes, <<"N", "y", "a">>)[1].content \in {<<"l", "i", "k", "e", "s", " ", "c", "a", "t", "s">>, <<"c", "a", "t", "s">>}
        /\ \A role \in DOMAIN notes \ {<<"N", "y", "a">>} : notes[role] = <<>>

\* C13: no segment of a returned list contains a silent tag (note, setrole, event,
\* event_end), whatever the chunk and the chat.
C13_NoSilentTagInSegments ==
    stage = "returned" =>
        \A i \in 1..Len(segments) :
            segments[i].type = "text" =>
                NextTag(segments[i].data,
                        <<<<"n", "o", "t", "e">>, <<"s", "e", "t", "r", "o", "l", "e">>, <<"e", "v", "e", "n", "t">>, <<"e", "v", "e", "n", "t", "_", "e", "n", "d">>>>, 1) = 0

\* C14: a reply segment of a returned list is its first element and is followed by
\* at least one other segment.
C14_ReplyOnlyBeforeOtherSegments ==
    stage = "returned" =>
        \A i \in 1..Len(segments) :
            segments[i].type = "reply" => i = 1 /\ Len(segments) > 1

\* C15: the parser never raises, so no chunk ends in the except clause of the
\* handler and no later chunk of the response is dropped.
C15_ParserNeverRaises == stage \notin {"raised", "failed"}

\* A text with no match of the silent pattern, the visible pattern or the reply pattern.
NoTag(text) ==
    /\ NextTag(text, SILENT_TAG_PATTERN, 1) = 0
    /\ NextTag(text, VISIBLE_TAG_PATTERN, 1) = 0
    /\ SearchReply(text, 1) = 0

\* The visible pass over a text of its own.
VisibleSegs(text) ==
    VisibleLoop(text, 1, 0,
                [segs |-> <<>>, tasks |-> <<>>, indices |-> <<>>, raised |-> FALSE]).segs

C17_PlainTextUnchanged ==
    (stage = "returned" /\ ptext # <<>> /\ NoTag(ptext)) =>
        segments = <<Segment("text", ptext)>> /\ effects = 0

\* C17: a non-empty chunk with no tag makes no store call and comes back, in a chat,
\* as one text segment holding the chunk without its leading and trailing
\* whitespace, or as the empty list if the chunk is only whitespace; without a chat
\* id it comes back as one text segment equal to the chunk.
C17_PlainTextStripped ==
    (stage = "returned" /\ ptext # <<>> /\ NoTag(ptext)) =>
        /\ effects = 0
        /\ segments = IF chat_id = None THEN <<Segment("text", ptext)>>
                      ELSE IF Strip(ptext) = <<>> THEN <<>>
                      ELSE <<Segment("text", Strip(ptext))>>

\* A chunk with whitespace at both ends was parsed in a chat.
C17_Witness ==
    /\ stage = "returned"
    /\ chat_id # None
    /\ ptext = <<" ", "y", "o", " ", "H", "i">>
    /\ segments = <<Segment("text", <<"y", "o", " ", "H", "i">>)>>
    /\ effects = 0

(***************************************************************************)
(* Properties of the stores.                                               *)
(***************************************************************************)
\* The events stored for a chat
EventsOf(evts, state_key) ==
    {e \in DOMAIN evts : <<evts[e].chat_id, evts[e].chat_type>> = state_key
                         /\ evts[e].status = "active"}

\* C18: after any sequence of register_event and remove_event calls the store
\* holds at most one active event per (chat_id, chat_type), and a register_event
\* call for a chat that has an active event returns no id and leaves the store
\* as it was.
C18_OneActiveEventPerChat ==
    /\ [](\A state_key \in StateKeys : Cardinality(EventsOf(events, state_key)) <= 1)
    /\ [][(call'.op = "register_event" /\ EventsOf(events, call'.state_key) # {}) =>
              (call'.ret = None /\ events' = events)]_vars

\* A registration for a chat with an active event was refused while another chat
\* holds an event too.
C18_Witness ==
    /\ call.op = "register_event"
    /\ call.ret = None
    /\ EventsOf(events, call.state_key) # {}
    /\ \E state_key \in StateKeys \ {call.state_key} : EventsOf(events, state_key) # {}

\* C19: a read of the flag of a chat returns True exactly when a set_active_role
\* call changed the chat's active persona since the previous read of that flag
\* (so a second read with no change in between returns False), and a
\* set_active_role call that leaves the chat's persona as it was leaves the flag
\* as it was.
C19_FlagConsumedOnce ==
    /\ [](\A state_key \in StateKeys :
             (state_key \in switched) <=>
                 (state_key \in DOMAIN role_switch_flags /\ role_switch_flags[state_key]))
    /\ [][call'.op = "check_and_clear_role_switch_flag" =>
              /\ call'.ret = (call'.state_key \in switched)
              /\ call'.state_key \notin DOMAIN role_switch_flags']_vars
    /\ [][(/\ call'.op = "set_active_role"
           /\ Get(active_roles', call'.state_key) = Get(active_roles, call'.state_key)) =>
              role_switch_flags' = role_switch_flags]_vars

\* A read returned True for a chat whose persona was set, and the flag is gone.
C19_Witness ==
    /\ call.op = "check_and_clear_role_switch_flag"
    /\ call.ret = TRUE
    /\ Get(active_roles, call.state_key) = <<"N", "y", "a">>
    /\ call.state_key \notin DOMAIN role_switch_flags

\* The role_name arguments that name a persona the registry does not hold.
Unregistered(role_name) ==
    role_name # None /\ role_name # <<>> /\ Strip(role_name) \notin load_roles

\* The two dicts agree on a key: it is in both or in neither, with one value.
SameAt(after, before, key) ==
    /\ (key \in DOMAIN after) = (key \in DOMAIN before)
    /\ key \in DOMAIN before => after[key] = before[key]

\* C40: a set_active_role call that names a persona the registry does not hold
\* returns failure and leaves the active persona and the switch flag of every
\* chat as they were; a set_active_role call for one key never changes the
\* active persona or the flag of another key.
C40_UnknownPersonaChangesNothing ==
    [][\A state_key \in StateKeys, role_name \in RoleNames :
          SetActiveRole(state_key, role_name) =>
              /\ Unregistered(role_name) =>
                    /\ call'.ret = FALSE
                    /\ active_roles' = active_roles
                    /\ role_switch_flags' = role_switch_flags
              /\ \A other \in StateKeys \ {state_key} :
                    /\ SameAt(active_roles', active_roles, other)
                    /\ SameAt(role_switch_flags', role_switch_flags, other)]_vars

\* A call failed for a chat that has a persona and an unread flag, as another
\* chat has.
C40_Witness ==
    /\ call.op = "set_active_role"
    /\ call.ret = FALSE
    /\ call.state_key \in DOMAIN active_roles
    /\ call.state_key \in DOMAIN role_switch_flags
    /\ \E other \in StateKeys \ {call.state_key} :
          other \in DOMAIN active_roles /\ other \in DOMAIN role_switch_flags

\* C20: after any sequence of add_note and delete_note calls the ids of the notes
\* of one persona are pairwise distinct, and an add_note call for a persona puts
\* the note with the returned id into that persona's notebook and changes no
\* other notebook; no call moves a note into another notebook.
C20_NoteIdsUniquePerPersona ==
    /\ [](\A role \in DOMAIN notes :
             \A i, j \in 1..Len(notes[role]) :
                 notes[role][i].id = notes[role][j].id => i = j)
    /\ [][call'.op \in {"add_note", "delete_note"} =>
              \A role \in (DOMAIN notes \cup DOMAIN notes') \ {call'.role} :
                  NotesOf(notes', role) = NotesOf(notes, role)]_vars
    /\ [][call'.op = "add_note" =>
              \E i \in 1..Len(notes'[call'.role]) :
                  /\ notes'[call'.role][i] = [id |-> call'.ret, content |-> call'.content]
                  /\ Len(notes'[call'.role]) = Len(NotesOf(notes, call'.role)) + 1]_vars

\* A note was added after an earlier note of the same persona was deleted, and
\* another persona holds a note with the same id.
C20_Witness ==
    /\ call.op = "add_note"
    /\ call.ret = 3
    /\ Len(notes[call.role]) = 2
    /\ notes[call.role][1].id = 2
    /\ \E role \in DOMAIN notes \ {call.role} :
          \E i \in 1..Len(notes[role]) : notes[role][i].id = 3
\* C33 (as claimed): no text segment of a returned list is empty or holds
\* only whitespace.
C33_NoBlankTextSegment ==
    stage = "returned" =>
        \A i \in 1..Len(segments) :
            segments[i].type = "text" => Strip(segments[i].data) # <<>>

(***************************************************************************)
(* History requests (src/storage/napcat_history.py): get_recent_messages    *)
(* registers an echo id with an event and a result holder and waits for    *)
(* the event; handle_history_response is called with the response that     *)
(* carries an echo id.  A message is a text, a list of messages a sequence.*)
(***************************************************************************)
MaxResponses == 3     \* most responses handled

EchoIds == {<<"e", "1">>, <<"e", "2">>}
UNKNOWN_ECHO == <<"e", "9">>
RAW_MESSAGES == <<<<"m", "1">>, <<"m", "2">>>>

\* The response data handed over: a dict with messages, with an empty list,
\* without the key, or no dict at all (the "data" of a failed action is null).
NULL_DATA == [null |-> TRUE]
ResponseData ==
    {[messages |-> RAW_MESSAGES], [messages |-> <<>>], [status |-> <<"o", "k">>],
     NULL_DATA}

IdleNet ==
    /\ pending_requests = {}
    /\ waiters = <<>>
    /\ last_response = [echo |-> None, response_data |-> NULL_DATA]
    /\ nresponses = 0
    /\ queue = <<>>
    /\ listener = None
    /\ hpc = "none"
    /\ hchunks = 0
    /\ handled = <<>>
    /\ npublished = 0
    /\ subscribers = <<>>
    /\ is_running = FALSE
    /\ pending_events = <<>>
    /\ current_event = 0
    /\ listener_index = 0
    /\ listener_calls = <<>>
    /\ completed = <<>>
    /\ nevents = 0

\* formatted_messages.reverse()
RECURSIVE Reversed(_)
Reversed(list) ==
    IF list = <<>> THEN <<>> ELSE Append(Reversed(Tail(list)), Head(list))

\* get_recent_messages up to its wait: a new echo id is registered with a new
\* event and an empty holder, and the request is sent.
SendHistoryRequest(echo_id) ==
    /\ echo_id \notin DOMAIN waiters
    /\ waiters' = echo_id :> [event |-> FALSE, result_holder |-> <<>>,
                              at |-> "waiting", returned |-> <<>>] @@ waiters
    /\ pending_requests' = pending_requests \cup {echo_id}
    /\ UNCHANGED <<last_response, nresponses>>

\* Mutant of RequestsCleaned: the entry is left in the table.
RequestsKept(pending, echo) == pending

\* finally: if echo in self._pending_requests: del self._pending_requests[echo]
RequestsCleaned(pending, echo) == pending \ {echo}

\* handle_history_response(echo, response_data)
handle_history_response(echo, response_data) ==
    /\ nresponses < MaxResponses
    /\ nresponses' = nresponses + 1
    /\ last_response' = [echo |-> echo, response_data |-> response_data]
    /\ IF echo \notin pending_requests
       THEN UNCHANGED <<pending_requests, waiters>>
       ELSE /\ waiters' =
                   [waiters EXCEPT
                       ![echo].event = TRUE,
                       ![echo].result_holder =
                           IF response_data = NULL_DATA THEN @
                           ELSE Append(@, IF "messages" \in DOMAIN response_data
                                          THEN response_data.messages ELSE <<>>)]
            /\ pending_requests' = RequestsCleaned(pending_requests, echo)

\* get_recent_messages after its wait: the event was set, the messages of the
\* holder are formatted and returned newest last, [] for an empty holder.
WaitEnds(echo_id) ==
    /\ echo_id \in DOMAIN waiters
    /\ waiters[echo_id].at = "waiting"
    /\ waiters[echo_id].event
    /\ waiters' = [waiters EXCEPT
                       ![echo_id].at = "returned",
                       ![echo_id].returned =
                           IF waiters[echo_id].result_holder # <<>>
                           THEN Reversed(waiters[echo_id].result_holder[1])
                           ELSE <<>>]
    /\ UNCHANGED <<pending_requests, last_response, nresponses>>

\* asyncio.TimeoutError: [] is returned; the entry stays in the table.
WaitTimesOut(echo_id) ==
    /\ echo_id \in DOMAIN waiters
    /\ waiters[echo_id].at = "waiting"
    /\ ~waiters[echo_id].event
    /\ waiters' = [waiters EXCEPT ![echo_id].at = "returned"]
    /\ UNCHANGED <<pending_requests, last_response, nresponses>>

NextHistory ==
    \/ \E echo_id \in EchoIds :
          SendHistoryRequest(echo_id)
          /\ UNCHANGED <<ctxVars, splitVars, orchVars, tagVars, busVars, svcVars>>
    \/ \E echo \in EchoIds \cup {UNKNOWN_ECHO}, response_data \in ResponseData :
          handle_history_response(echo, response_data)
          /\ UNCHANGED <<ctxVars, splitVars, orchVars, tagVars, busVars, svcVars>>
    \/ \E echo_id \in EchoIds :
          WaitEnds(echo_id) /\ UNCHANGED <<ctxVars, splitVars, orchVars, tagVars, busVars, svcVars>>
    \/ \E echo_id \in EchoIds :
          WaitTimesOut(echo_id)
          /\ UNCHANGED <<ctxVars, splitVars, orchVars, tagVars, busVars, svcVars>>

C37_ReturnedRequestRemoved ==
    \A echo_id \in DOMAIN waiters :
        waiters[echo_id].at = "returned" => echo_id \notin pending_requests

(***************************************************************************)
(* Event bus (src/core/event_bus.py).  The adapter publishes one           *)
(* MessageReceivedEvent for each message; run() takes the events one by    *)
(* one and awaits the listener, ChatService.handle_message_received, which *)
(* is suspended where it awaits the parser and the adapter.  A step is the *)
(* code between two awaits.                                                *)
(***************************************************************************)
MaxEvents == 3        \* most events published

Chats == {<<"A">>, <<"B">>}

\* EventBus.publish: the adapter puts the event of a received message.
Publish(chat) ==
    /\ npublished < MaxEvents
    /\ npublished' = npublished + 1
    /\ queue' = Append(queue, chat)
    /\ UNCHANGED <<listener, hpc, hchunks, handled>>

\* EventBus.run: the next event is taken and the listener is called and
\* awaited.  The handler returns at once for a message that is not for the
\* bot; otherwise it runs to its first await, the parse of the first chunk.
RunTakesEvent(answered) ==
    /\ listener = None
    /\ queue # <<>>
    /\ queue' = Tail(queue)
    /\ IF answered
       THEN /\ listener' = Head(queue)
            /\ hpc' = "parse"
            /\ hchunks' = 1
            /\ UNCHANGED handled
       ELSE /\ handled' = Append(handled, Head(queue))
            /\ UNCHANGED <<listener, hpc, hchunks>>
    /\ UNCHANGED npublished

\* The parser returns: the handler goes on to await adapter.send_message.
ParseReturns ==
    /\ hpc = "parse"
    /\ hpc' = "send"
    /\ UNCHANGED <<queue, listener, hchunks, handled, npublished>>

\* send_message returns and process_conversation yields another chunk.
SendReturns ==
    /\ hpc = "send"
    /\ hchunks < MaxChunks
    /\ hchunks' = hchunks + 1
    /\ hpc' = "parse"
    /\ UNCHANGED <<queue, listener, handled, npublished>>

\* send_message returns and process_conversation is exhausted: the handler
\* returns to run(), which marks the event done and takes the next one.
HandlerReturns ==
    /\ hpc = "send"
    /\ handled' = Append(handled, listener)
    /\ listener' = None
    /\ hpc' = "none"
    /\ hchunks' = 0
    /\ UNCHANGED <<queue, npublished>>

\* The step of run() that takes an event, within the whole state.
BusTakesEvent ==
    \E answered \in BOOLEAN :
        RunTakesEvent(answered)
        /\ UNCHANGED <<ctxVars, splitVars, orchVars, tagVars, histVars, svcVars>>

NextBus ==
    \/ \E chat \in Chats :
          Publish(chat) /\ UNCHANGED <<ctxVars, splitVars, orchVars, tagVars, histVars, svcVars>>
    \/ BusTakesEvent
    \/ ParseReturns /\ UNCHANGED <<ctxVars, splitVars, orchVars, tagVars, histVars, svcVars>>
    \/ SendReturns /\ UNCHANGED <<ctxVars, splitVars, orchVars, tagVars, histVars, svcVars>>
    \/ HandlerReturns /\ UNCHANGED <<ctxVars, splitVars, orchVars, tagVars, histVars, svcVars>>

\* C23 (as claimed): while the handler of one chat's message is suspended, the
\* bus can take the waiting message of another chat and start its handler.
C23_OtherChatCanStart ==
    (listener # None /\ queue # <<>> /\ Head(queue) # listener) =>
        ENABLED BusTakesEvent


(***************************************************************************)
(* The event bus with its subscription list (src/core/event_bus.py) and    *)
(* the start and stop of ChatService (src/core/chat_service.py).  run()    *)
(* awaits each listener, so a call of a listener is one step here.         *)
(***************************************************************************)
MaxPosted == 2        \* most events published
MaxSubscribers == 2   \* longest subscription list

\* The listener that ChatService subscribes: its handle_message_received.
SERVICE == "handle_message_received"

\* EventBus.subscribe: the listener is appended to the list of the event.
Subscribe(who) ==
    /\ Len(subscribers) < MaxSubscribers
    /\ subscribers' = Append(subscribers, who)

\* ChatService.start: if not self._is_running: subscribe; _is_running = True
Start ==
    /\ IF ~is_running
       THEN Subscribe(SERVICE) /\ is_running' = TRUE
       ELSE UNCHANGED <<subscribers, is_running>>
    /\ UNCHANGED <<pending_events, current_event, listener_index, listener_calls, completed,
                   nevents>>

\* ChatService.stop: self._is_running = False
Stop ==
    /\ is_running' = FALSE
    /\ UNCHANGED <<subscribers, pending_events, current_event, listener_index, listener_calls,
                   completed, nevents>>

\* A component other than ChatService subscribes a listener.
OtherSubscribes ==
    /\ Subscribe("other")
    /\ UNCHANGED <<is_running, pending_events, current_event, listener_index, listener_calls,
                   completed, nevents>>

\* EventBus.publish: await self._queue.put(...)
PublishEvent ==
    /\ nevents < MaxPosted
    /\ nevents' = nevents + 1
    /\ pending_events' = Append(pending_events, nevents + 1)
    /\ UNCHANGED <<subscribers, is_running, current_event, listener_index, listener_calls,
                   completed>>

\* run(): event_name, args, kwargs = await self._queue.get()
TakeEvent ==
    /\ current_event = 0
    /\ pending_events # <<>>
    /\ current_event' = Head(pending_events)
    /\ pending_events' = Tail(pending_events)
    /\ listener_index' = 1
    /\ listener_calls' = <<>>
    /\ UNCHANGED <<subscribers, is_running, completed, nevents>>

\* Mutant of AfterCall: an exception of a listener ends the for loop.
AfterCallLeavesLoop(index, raised) ==
    IF raised THEN Len(subscribers) + 1 ELSE index + 1

\* The for loop after a listener returned or its exception was caught and
\* printed: on to the next listener.
AfterCall(index, raised) == index + 1

\* for listener in self._listeners[event_name]: try: await listener(...)
\* except Exception: print(...).  The handler of ChatService does not look
\* at _is_running.
CallListener(raised) ==
    /\ current_event # 0
    /\ listener_index <= Len(subscribers)
    /\ listener_calls' = Append(listener_calls, [listener |-> subscribers[listener_index],
                               index |-> listener_index,
                               running |-> is_running,
                               raised |-> raised])
    /\ listener_index' = AfterCall(listener_index, raised)
    /\ UNCHANGED <<subscribers, is_running, pending_events, current_event, completed,
                   nevents>>

\* The for loop is exhausted: self._queue.task_done()
TaskDone ==
    /\ current_event # 0
    /\ listener_index > Len(subscribers)
    /\ completed' = Append(completed, current_event)
    /\ current_event' = 0
    /\ UNCHANGED <<subscribers, is_running, pending_events, listener_index, listener_calls,
                   nevents>>

NextService ==
    \/ Start /\ UNCHANGED <<ctxVars, splitVars, orchVars, tagVars, histVars, busVars>>
    \/ Stop /\ UNCHANGED <<ctxVars, splitVars, orchVars, tagVars, histVars, busVars>>
    \/ OtherSubscribes /\ UNCHANGED <<ctxVars, splitVars, orchVars, tagVars, histVars, busVars>>
    \/ PublishEvent /\ UNCHANGED <<ctxVars, splitVars, orchVars, tagVars, histVars, busVars>>
    \/ TakeEvent /\ UNCHANGED <<ctxVars, splitVars, orchVars, tagVars, histVars, busVars>>
    \/ \E raised \in BOOLEAN :
          CallListener(raised)
          /\ UNCHANGED <<ctxVars, splitVars, orchVars, tagVars, histVars, busVars>>
    \/ TaskDone /\ UNCHANGED <<ctxVars, splitVars, orchVars, tagVars, histVars, busVars>>

\* C38: the events are taken in the order published, one at a time; the
\* listeners of an event are called in subscription order; and when the event
\* is marked done every listener of the list has been called for it, whether
\* or not an earlier one raised, after which the next event is taken.
C38_FifoDispatchSurvivesExceptions ==
    /\ [](/\ completed = [i \in 1..Len(completed) |-> i]
          /\ current_event # 0 =>
                /\ current_event = Len(completed) + 1
                /\ \A i \in 1..Len(pending_events) :
                      pending_events[i] = current_event + i
          /\ \A i \in 1..Len(listener_calls) :
                listener_calls[i].index = i /\ listener_calls[i].listener = subscribers[i])
    /\ [][/\ completed' # completed =>
                /\ completed' = Append(completed, current_event)
                /\ Len(listener_calls) = Len(subscribers)
          /\ (current_event = 0 /\ current_event' # 0) =>
                current_event' = Head(pending_events)]_vars

\* The first listener raised and the second was called all the same; the
\* event was marked done and the second event is being dispatched.
C38_Witness ==
    /\ completed = <<1>>
    /\ current_event = 2
    /\ Len(listener_calls) = 2
    /\ listener_calls[1].raised
    /\ listener_calls[1].listener # listener_calls[2].listener
    /\ listener_index > Len(subscribers)

\* The calls of ChatService's handler among the listener calls.
RECURSIVE ServiceCalls(_)
ServiceCalls(list) ==
    IF list = <<>> THEN <<>>
    ELSE (IF Head(list).listener = SERVICE THEN <<Head(list)>> ELSE <<>>)
         \o ServiceCalls(Tail(list))

\* C39 (as claimed): whatever start and stop calls were made, an event is
\* handled by the service at most once, and not while the service is stopped.
C39_HandledOnceWhileRunning ==
    /\ Len(ServiceCalls(listener_calls)) <= 1
    /\ \A i \in 1..Len(listener_calls) : listener_calls[i].listener = SERVICE => listener_calls[i].running

(***************************************************************************)
(* Specifications: one request of the retry loop, one call of the          *)
(* budgeter, one response stream of the splitter, the chunks of a chat     *)
(* through the tag parser, the calls of each store.                         *)
(***************************************************************************)
Init == InitOrch /\ IdleCtx /\ IdleSplit /\ IdleParse /\ IdleStores /\ IdleNet
Next == NextOrch
Spec == Init /\ [][Next]_vars

InitCtx == InitBudget /\ IdleSplit /\ IdleOrch /\ IdleParse /\ IdleStores /\ IdleNet
SpecCtx == InitCtx /\ [][NextCtx]_vars

InitSplitter == InitSplit /\ IdleCtx /\ IdleOrch /\ IdleParse /\ IdleStores /\ IdleNet
SpecSplit == InitSplitter /\ [][NextSplit]_vars

InitTags == IdleParse /\ IdleStores /\ IdleCtx /\ IdleSplit /\ IdleOrch /\ IdleNet
SpecParse == InitTags /\ [][NextParse]_vars
SpecEvents == InitTags /\ [][NextEvents]_vars
SpecRoles == InitTags /\ [][NextRoles]_vars
SpecNotes == InitTags /\ [][NextNotes]_vars

\* The history requests and the event bus start as IdleNet leaves them.
SpecHistory == InitTags /\ [][NextHistory]_vars
SpecBus == InitTags /\ [][NextBus]_vars
SpecService == InitTags /\ [][NextService]_vars

====
